---- MODULE Spec2Model ----
(***************************************************************************)
(* Model of backend/controllers/model_controller.py:                       *)
(*   - convert_numpy_types (the result formatter),                         *)
(*   - perform_fairness_analysis (the fairness analysis engine), and       *)
(*   - certify_model (the certification workflow around the analysis).     *)
(*                                                                         *)
(* Numbers.  A float is an exact fraction <<n, d>> in lowest terms with    *)
(* d > 0; the three IEEE specials are NaN = <<0,0>>, +inf = <<1,0>> and    *)
(* -inf = <<-1,0>>.  Raw prediction / probability entries are integers in  *)
(* tenths (7 stands for 0.7, 10 for 1.0, 20 for 2.0).                      *)
(*                                                                         *)
(* Python values are tagged records [t |-> <type>, v |-> <payload>], so    *)
(* that a numpy scalar, a plain float and a list are different values and  *)
(* the formatter's isinstance chain can be followed branch by branch.      *)
(***************************************************************************)
EXTENDS Integers, Sequences, FiniteSets, TLC

VARIABLES
    \* ---- convert_numpy_types, called on its own
    cpc,            \* "idle" | "in" | "once" | "twice"
    cx,             \* the argument
    cy,             \* convert_numpy_types(cx)
    cz,             \* convert_numpy_types(cy)
    \* ---- perform_fairness_analysis: its arguments and the world it reads
    scope,          \* the family of inputs this run draws from
    sens_arg,       \* the sensitive_attributes argument (NoneArg when omitted)
    given,          \* the two files on disk, when a program fixes them (else NoGiven)
    first,          \* what an earlier invocation on the same files did (else NoFirst)
    \* ---- perform_fairness_analysis: its locals
    pc,             \* the statement the call has reached
    pipeline,       \* the loaded model (or the SimpleModel wrapper)
    is_string_array,
    y_pred,         \* prediction vector (Unset while not bound)
    probas,         \* probability vector (NoneVec while None)
    test_data,      \* the parsed dataset
    target_col,
    sensitive_attributes,
    y_true,
    predict_calls,  \* the calls of predict, in order: the matrix and how the call ended
    y_pred_biased,
    metrics,
    response_data,
    exc,            \* the exception travelling to the outer handler ("" if none)
    result,         \* the returned value (None until the call returns)
    \* ---- certify_model: the requests in flight and what they share
    clock,          \* the time, in ticks
    assets,         \* the files under assets/: path -> what was written last
    db,             \* tables REPORTS, CERTIFICATION_TYPES, VERSIONS (ID = position)
    reqs            \* per request: the statement reached and the locals

kvars == <<clock, assets, db, reqs>>
cvars == <<cpc, cx, cy, cz, kvars>>
inputs == <<scope, sens_arg, given, first>>
loadvars == <<pipeline, is_string_array>>
datavars == <<test_data, target_col, sensitive_attributes, y_true>>
predvars == <<y_pred, probas, predict_calls>>
latevars == <<y_pred_biased, metrics, response_data>>
pvars == <<inputs, pc, loadvars, datavars, predvars, latevars, exc, result>>
vars == <<cvars, pvars>>

(***************************************************************************)
(* Bounds                                                                  *)
(***************************************************************************)
MaxArrayLen == 2
MaxRows == 3        \* data rows of a dataset
MaxRichLen == 2     \* length of a raw vector that holds fractional / out-of-range entries
MaxHalf == 2        \* rows per gender in the balanced end-to-end datasets
MaxTwiceRows == 2   \* data rows of a dataset that is analysed twice
MaxClock == 2       \* ticks the clock can advance while two requests are served
TicksPerSecond == 2
MaxNamedRows == 2   \* data rows of a dataset of the header families
MaxFirstGroup == 5  \* rows of the first group in the scoring program
MaxSecondGroup == 11    \* rows of the second group in the scoring program

(***************************************************************************)
(* Exact fractions                                                         *)
(***************************************************************************)
RECURSIVE GCD(_, _)
GCD(a, b) == IF b = 0 THEN a ELSE GCD(b, a % b)

Abs(i) == IF i < 0 THEN -i ELSE i

NaN == <<0, 0>>
PosInf == <<1, 0>>
NegInf == <<-1, 0>>

Frac(n, d) ==
    LET g == GCD(Abs(n), Abs(d))
        s == IF d < 0 THEN -1 ELSE 1
    IN  IF d = 0 THEN <<(IF n > 0 THEN 1 ELSE IF n < 0 THEN -1 ELSE 0), 0>>
        ELSE <<s * (n \div g), s * (d \div g)>>

IsNaN(f) == f = NaN
IsInf(f) == f[2] = 0 /\ f[1] # 0
Finite(f) == f[2] # 0

(***************************************************************************)
(* Tagged Python values                                                    *)
(***************************************************************************)
PyInt(i) == [t |-> "int", v |-> i]
PyFloat(f) == [t |-> "float", v |-> f]
PyStr(s) == [t |-> "str", v |-> s]
NpInt(i) == [t |-> "np.integer", v |-> i]
NpFloat(f) == [t |-> "np.floating", v |-> f]
NdArray(k, items) == [t |-> "np.ndarray", kind |-> k, v |-> items]
PyList(items) == [t |-> "list", v |-> items]
PyTuple(items) == [t |-> "tuple", v |-> items]
PyDict(f) == [t |-> "dict", v |-> f]

\* ndarray.tolist(): an element of a numeric or string array becomes the
\* nearest builtin Python value; an element of an object array (dtype kind
\* 'O') is the stored object itself, unchanged.
Item(k, e) ==
    IF k = "O" THEN e
    ELSE IF e.t = "np.floating" THEN PyFloat(e.v)
    ELSE IF e.t = "np.integer" THEN PyInt(e.v)
    ELSE e

ToList(k, items) == PyList([i \in DOMAIN items |-> Item(k, items[i])])

\* np.where(np.isinf(obj) | np.isnan(obj), 0.0, obj) on a float array
NpWhereClean(items) ==
    [i \in DOMAIN items |->
        IF IsInf(items[i].v) \/ IsNaN(items[i].v) THEN NpFloat(Frac(0, 1))
        ELSE items[i]]

RECURSIVE convert_numpy_types(_)
convert_numpy_types(obj) ==
    IF obj.t = "np.integer" THEN PyInt(obj.v)
    ELSE IF obj.t = "np.floating" THEN
        IF IsInf(obj.v) \/ IsNaN(obj.v) THEN PyFloat(Frac(0, 1))
        ELSE PyFloat(obj.v)
    ELSE IF obj.t = "np.ndarray" THEN
        IF obj.kind \in {"f", "c"} THEN ToList(obj.kind, NpWhereClean(obj.v))
        ELSE ToList(obj.kind, obj.v)
    ELSE IF obj.t = "dict" THEN
        PyDict([key \in DOMAIN obj.v |-> convert_numpy_types(obj.v[key])])
    ELSE IF obj.t = "list" THEN
        PyList([i \in DOMAIN obj.v |-> convert_numpy_types(obj.v[i])])
    ELSE obj

(***************************************************************************)
(* The values convert_numpy_types is exercised on                          *)
(***************************************************************************)
SeqsUpTo(S, n) == UNION {[1..k -> S] : k \in 0..n}

FloatSamples == {NaN, PosInf, NegInf, Frac(3, 2)}
Scalars ==
    {PyInt(7), NpInt(7), PyStr("a")}
        \cup {PyFloat(f) : f \in FloatSamples}
        \cup {NpFloat(f) : f \in FloatSamples}
ObjectItems == {NpFloat(NaN), NpFloat(Frac(3, 2)), PyStr("a")}
Arrays ==
    {NdArray("f", s) : s \in SeqsUpTo({NpFloat(f) : f \in FloatSamples}, MaxArrayLen)}
        \cup {NdArray("i", s) : s \in SeqsUpTo({NpInt(7)}, MaxArrayLen)}
        \cup {NdArray("U", s) : s \in SeqsUpTo({PyStr("a")}, MaxArrayLen)}
        \cup {NdArray("O", s) : s \in SeqsUpTo(ObjectItems, MaxArrayLen)}
Leaves == Scalars \cup Arrays
DictsOver(S, keys) == UNION {{PyDict(f) : f \in [K -> S]} : K \in SUBSET keys}
Containers(S, n) ==
    {PyList(s) : s \in SeqsUpTo(S, n)}
        \cup {PyTuple(s) : s \in SeqsUpTo(S, n)}
        \cup (IF n >= 2 THEN DictsOver(S, {"k1", "k2"}) ELSE DictsOver(S, {"k1"}))
Nested1 == Leaves \cup Containers(Leaves, 2)
Values == Nested1 \cup Containers(Nested1, 1)

None == [t |-> "NoneType", v |-> 0]

(***************************************************************************)
(* perform_fairness_analysis: vectors, datasets, model files               *)
(***************************************************************************)
\* A numpy vector: dtype kind ('i' int, 'f' float, 'U' text), entries in
\* tenths, and for a text vector the positions whose text is not a number.
Vec(k, d, bad) == [dkind |-> k, data |-> d, nonnum |-> bad]
Unset == Vec("unset", <<>>, {})
NoneVec == Vec("None", <<>>, {})
IntVec(d) == Vec("i", d, {})
FloatVec(d) == Vec("f", d, {})

NoneArg == <<"None">>

\* What the text of a CSV cell parses to (tenths); -1 when it is not a number.
CellNumber(c) ==
    CASE c = "0" -> 0
      [] c = "1" -> 10
      [] c = "2" -> 20
      [] c = "30" -> 300
      [] c = "40" -> 400
      [] OTHER -> -1
IsNumericCell(c) == CellNumber(c) >= 0

Dataset(cols, rows) == [columns |-> cols, rows |-> rows]
NoData == Dataset(<<>>, <<>>)

GenderAgeLabel == <<"gender", "age", "label">>
GenderLabel == <<"gender", "label">>
RowsGAL == [gender : {"M", "F"}, age : {"30", "40"}, label : {"0", "1"}]
RowsThird == [gender : {"M", "F", "X"}, age : {"30"}, label : {"0", "1"}]
RowsAnyLabel == [gender : {"M", "F"}, label : {"0", "1", "2", "yes"}]
AdapterRows == {[gender |-> "M", label |-> "1"], [gender |-> "F", label |-> "0"]}

CountGender(rows, g) == Cardinality({i \in DOMAIN rows : rows[i].gender = g})

\* [gender, age, label] datasets with as many M rows as F rows
BalancedRows ==
    UNION {{rs \in [1..(2 * k) -> RowsGAL] : CountGender(rs, "M") = k} : k \in 1..MaxHalf}

\* Headers that differ in which names they hold and where: a priority name
\* behind another one, no priority name at all, a last column with a
\* sensitive name, a numeric column before a textual one.
ColumnLists ==
    {<<"y", "Gender", "label">>, <<"city", "score">>, <<"sex", "age">>,
     <<"zip", "city", "outcome">>}
CellsOf(col) ==
    CASE col \in {"Gender", "sex"} -> {"M", "F"}
      [] col = "city" -> {"a", "30"}
      [] col \in {"zip", "y"} -> {"30"}
      [] OTHER -> {"0", "1"}
RowsOver(cols) ==
    LET names == {cols[i] : i \in DOMAIN cols}
    IN  {r \in [names -> {"M", "F", "a", "30", "0", "1"}] :
            \A c \in names : r[c] \in CellsOf(c)}

\* The files a run may find at test_dataset_path: how read_csv fares on it
\* under utf-8 and under latin-1, and the table it parses to.
CsvFile(u, l, d) == [utf8 |-> u, latin1 |-> l, table |-> d]
Readable(d) == {CsvFile(TRUE, TRUE, d), CsvFile(FALSE, TRUE, d)}
BrokenCsv == {CsvFile(FALSE, FALSE, NoData)}
CsvPool(sc) ==
    BrokenCsv \cup
    UNION {Readable(d) : d \in
        IF sc = "adapter" THEN
            {Dataset(GenderLabel, rs) : rs \in SeqsUpTo(AdapterRows, MaxRows)}
        ELSE IF sc = "metrics" THEN
            {Dataset(GenderAgeLabel, rs) : rs \in SeqsUpTo(RowsGAL, MaxRows) \ {<<>>}}
        ELSE IF sc = "labels" THEN
            {Dataset(GenderLabel, rs) : rs \in SeqsUpTo(RowsAnyLabel, MaxRows) \ {<<>>}}
        ELSE IF sc = "third" THEN
            {Dataset(GenderAgeLabel, rs) : rs \in SeqsUpTo(RowsThird, MaxRows) \ {<<>>}}
        ELSE IF sc = "columns" THEN
            UNION {{Dataset(cols, rs) : rs \in SeqsUpTo(RowsOver(cols), MaxNamedRows) \ {<<>>}} :
                      cols \in ColumnLists}
        ELSE
            {Dataset(GenderAgeLabel, rs) : rs \in BalancedRows}}

\* What deserializing the file at model_file_path yields.
NdArrayObj(ndim, vec) == [kind |-> "ndarray", ndim |-> ndim, vec |-> vec]
Estimator(hp, hpp, hfn) ==
    [kind |-> "object", predict |-> hp, predict_proba |-> hpp,
     feature_names_in_ |-> hfn]
SimpleModel == [kind |-> "SimpleModel", predict |-> TRUE, predict_proba |-> FALSE,
                feature_names_in_ |-> FALSE]
NoModel == [kind |-> "unbound"]
BadModelFile == [kind |-> "undecodable"]

RawVals == {0, 7, 10, 20}
BinVals == {0, 10}
ProbaVals == {2, 8}

\* Raw vectors: any 0/1 vector up to length n, and any vector over RawVals
\* up to length MaxRichLen.
RawData(n) ==
    SeqsUpTo(BinVals, n) \cup SeqsUpTo(RawVals, MaxRichLen)
KindOf(d) == IF \A i \in DOMAIN d : d[i] % 10 = 0 THEN "i" ELSE "f"

ModelObjects(sc) ==
    {Estimator(TRUE, FALSE, FALSE), Estimator(FALSE, FALSE, FALSE),
     NdArrayObj(2, FloatVec(<<7, 20>>))}
        \cup (IF sc = "adapter"
              THEN {Estimator(TRUE, hpp, hfn) : hpp \in BOOLEAN, hfn \in BOOLEAN}
                    \cup {NdArrayObj(1, Vec(KindOf(d), d, {})) : d \in RawData(MaxRows + 1)}
                    \cup {NdArrayObj(1, Vec("U", <<0, 0>>, {1, 2}))}
              ELSE {})

\* What predict may return for a table of n rows: one label per row, or
\* (adapter family) a vector of another length, fractional or out-of-range
\* scores, or text labels.
AllOnes(n) == [i \in 1..n |-> 10]
OnesForM(rows) == [i \in DOMAIN rows |-> IF rows[i].gender = "M" THEN 10 ELSE 0]
PredictOutputs(sc, rows) ==
    LET n == Len(rows) IN
    IF sc = "adapter" THEN
        {Vec(KindOf(d), d, {}) : d \in [1..n -> BinVals] \cup SeqsUpTo(RawVals, MaxRichLen)
                                        \cup {AllOnes(n - 1), AllOnes(n + 1)}}
            \cup {Vec("U", d, bad) : d \in [1..n -> BinVals], bad \in {{}, {1}}}
    ELSE IF sc \in {"metrics", "labels", "third", "columns"}
         THEN {IntVec(d) : d \in [1..n -> BinVals]}
    ELSE {IntVec(AllOnes(n)), IntVec(OnesForM(rows))}
ProbaOutputs(n) == {FloatVec(d) : d \in [1..n -> ProbaVals]}

Scopes == {"adapter", "metrics", "labels", "third", "balanced", "twice", "columns"}

\* ---- the same two files, analysed twice
\* The model file and the dataset file of a program that runs the analysis
\* twice on them.  What the files hold does not change between the runs, and
\* an estimator's predict is a function of the matrix it is given, so its
\* output on this dataset (out, in tenths) is part of what the file holds.
NoGiven == [model |-> NoModel]
NoFirst == [result |-> None]
TwiceRows == {[gender |-> "M", label |-> "1"], [gender |-> "M", label |-> "0"],
              [gender |-> "F", label |-> "0"]}
TwiceFiles ==
    {CsvFile(TRUE, TRUE, Dataset(GenderLabel, rs)) : rs \in [1..MaxTwiceRows -> TwiceRows]}
        \cup BrokenCsv
Given(m, f, out) == [model |-> m, csv |-> f, out |-> out]
Givens(sc) ==
    IF sc # "twice" THEN {NoGiven}
    ELSE UNION {{Given(Estimator(TRUE, FALSE, FALSE), f, IntVec(d)) :
                    d \in [1..Len(f.table.rows) -> BinVals]} : f \in TwiceFiles}
         \cup {Given(m, f, Unset) :
              m \in {NdArrayObj(1, IntVec(d)) : d \in [1..MaxTwiceRows -> BinVals]}
                    \cup {NdArrayObj(1, Vec("U", <<0, 0>>, {1, 2})), BadModelFile},
              f \in TwiceFiles}
\* what the loaders can find at model_file_path, and whether both can fail
Loadable == IF given = NoGiven THEN ModelObjects(scope) ELSE {given.model} \ {BadModelFile}
Unloadable == given = NoGiven \/ given.model = BadModelFile
\* what read_csv can find at test_dataset_path
CsvOffered == IF given = NoGiven THEN CsvPool(scope) ELSE {given.csv}
\* what predict returns on the rows of the dataset
PredictOffered(rows) ==
    IF given = NoGiven THEN PredictOutputs(scope, rows) ELSE {given.out}
SensArgs == {NoneArg, <<"gender">>}
\* the argument on the datasets of ColumnLists: omitted, the empty list, or
\* a list naming columns some of the datasets have
NamedArgs == {NoneArg, <<>>, <<"age", "zip">>}

(***************************************************************************)
(* perform_fairness_analysis, statement by statement                       *)
(***************************************************************************)
\* certify_model is not being served: no time has passed, nothing is stored
EmptyDb == [REPORTS |-> <<>>, CERTIFICATION_TYPES |-> <<>>, VERSIONS |-> <<>>]
KIdle == clock = 0 /\ assets = <<>> /\ db = EmptyDb /\ reqs = <<>>

PIdle ==
    /\ scope = "none" /\ sens_arg = NoneArg /\ pc = "idle"
    /\ pipeline = NoModel /\ is_string_array = FALSE
    /\ y_pred = Unset /\ probas = NoneVec /\ predict_calls = <<>>
    /\ test_data = NoData /\ target_col = "" /\ sensitive_attributes = <<>>
    /\ y_true = <<>> /\ y_pred_biased = <<>> /\ metrics = None
    /\ response_data = None /\ exc = "" /\ result = None
    /\ given = NoGiven /\ first = NoFirst

Init ==
    /\ scope \in Scopes /\ pc = "start"
    /\ sens_arg \in (IF scope = "columns" THEN NamedArgs ELSE SensArgs)
    /\ scope \in {"adapter", "labels"} => sens_arg = NoneArg
    /\ given \in Givens(scope) /\ first = NoFirst
    /\ pipeline = NoModel /\ is_string_array = FALSE
    /\ y_pred = Unset /\ probas = NoneVec /\ predict_calls = <<>>
    /\ test_data = NoData /\ target_col = "" /\ sensitive_attributes = <<>>
    /\ y_true = <<>> /\ y_pred_biased = <<>> /\ metrics = None
    /\ response_data = None /\ exc = "" /\ result = None
    /\ cpc = "idle" /\ cx = None /\ cy = None /\ cz = None
    /\ KIdle

Half == Frac(1, 2)
EmptyDict == PyDict(<<>>)
\* a variant that reports the worst score on failure
ErrorResultZeroScore(ib, msg) ==
    PyDict([fairness_score |-> PyFloat(Frac(0, 1)), intentional_bias |-> ib,
            bias_metrics |-> PyDict(<<>>), error |-> PyStr(msg)])

ErrorResult(ib, msg) ==
    PyDict([fairness_score |-> PyFloat(Half), intentional_bias |-> ib,
            bias_metrics |-> EmptyDict, error |-> PyStr(msg)])

Return(r) == result' = r /\ pc' = "done"

\* a variant with one loader: a failure of pickle.load is final
PickleLoadOnly ==
    /\ pc = "start"
    /\ \/ /\ \E obj \in Loadable : pipeline' = obj
          /\ pc' = "loaded" /\ result' = result
       \/ /\ pipeline' = pipeline
          /\ Return(ErrorResult(PyStr("[]"), "Failed to load model"))
    /\ UNCHANGED <<cvars, inputs, is_string_array, datavars, predvars, latevars, exc>>

\* lines 303-306: pickle.load; any failure falls through to joblib
PickleLoad ==
    /\ pc = "start"
    /\ \/ \E obj \in Loadable : pipeline' = obj /\ pc' = "loaded"
       \/ pipeline' = pipeline /\ pc' = "pickle_failed"
    /\ UNCHANGED <<cvars, inputs, is_string_array, datavars, predvars, latevars,
                   exc, result>>

\* lines 307-318: joblib.load, tried once pickle has failed
JoblibLoad ==
    /\ pc = "pickle_failed"
    /\ \/ /\ \E obj \in Loadable : pipeline' = obj
          /\ pc' = "loaded" /\ result' = result
       \/ /\ Unloadable
          /\ pipeline' = pipeline
          /\ Return(ErrorResult(PyStr("[]"), "Failed to load model"))
    /\ UNCHANGED <<cvars, inputs, is_string_array, datavars, predvars, latevars, exc>>

\* lines 321-362: what kind of thing was loaded
AdaptModel ==
    /\ pc = "loaded"
    /\ IF pipeline.kind = "ndarray" THEN
          IF pipeline.ndim = 1 THEN
             /\ IF pipeline.vec.dkind \in {"U", "S", "O"}
                THEN /\ is_string_array' = TRUE
                     /\ UNCHANGED <<y_pred, probas>>
                ELSE /\ is_string_array' = FALSE
                     /\ y_pred' = pipeline.vec
                     /\ probas' = FloatVec(pipeline.vec.data)
             /\ pipeline' = SimpleModel
             /\ pc' = "adapted" /\ result' = result
          ELSE
             /\ Return(ErrorResult(PyList(<<>>),
                    "Model file contains coefficients array, not a trained model. Please upload a complete trained model."))
             /\ UNCHANGED <<pipeline, is_string_array, y_pred, probas>>
       ELSE IF ~pipeline.predict THEN
             /\ Return(ErrorResult(PyList(<<>>),
                    "Loaded object is not a valid model. Expected model with predict method, got <class>"))
             /\ UNCHANGED <<pipeline, is_string_array, y_pred, probas>>
       ELSE
             /\ pc' = "adapted"
             /\ UNCHANGED <<pipeline, is_string_array, y_pred, probas, result>>
    /\ UNCHANGED <<cvars, inputs, datavars, predict_calls, latevars, exc>>

\* lines 365-391: read_csv under utf-8, then under latin-1; a table with no
\* data rows counts as a failed read
ReadCsv(ok, d) == ok /\ Len(d.rows) > 0
LoadDataset ==
    /\ pc = "adapted"
    /\ \E f \in CsvOffered :
          IF ReadCsv(f.utf8, f.table) \/ ReadCsv(f.latin1, f.table) THEN
             /\ test_data' = f.table
             /\ pc' = "read" /\ result' = result
          ELSE
             /\ test_data' = test_data
             /\ Return(ErrorResult(PyStr("[]"), "Failed to load test dataset"))
    /\ UNCHANGED <<cvars, inputs, loadvars, target_col, sensitive_attributes, y_true,
                   predvars, latevars, exc>>

\* lines 394-401: the target column
TargetPriority == <<"target", "label", "y", "class", "selected">>
InSeq(x, seq) == \E i \in DOMAIN seq : seq[i] = x
\* a variant that walks the dataset's columns and takes the first one whose
\* name is on the priority list
ResolveTargetByColumn(cols) ==
    LET hits == {i \in DOMAIN cols : InSeq(cols[i], TargetPriority)}
    IN  IF hits # {} THEN cols[CHOOSE i \in hits : \A j \in hits : i <= j]
        ELSE cols[Len(cols)]

ResolveTarget(cols) ==
    LET hits == {i \in DOMAIN TargetPriority : InSeq(TargetPriority[i], cols)}
    IN  IF hits # {} THEN TargetPriority[CHOOSE i \in hits : \A j \in hits : i <= j]
        ELSE cols[Len(cols)]

\* str.lower() on the column names in use
Lower(c) ==
    CASE c = "Gender" -> "gender"
      [] c = "AGE" -> "age"
      [] OTHER -> c
SensitiveNames == {"gender", "sex", "race", "ethnicity", "age", "education"}
Column(d, col) == [i \in DOMAIN d.rows |-> d.rows[i][col]]
\* pandas reads a column whose cells are not all numbers as dtype object
IsObjectColumn(d, col) == \E i \in DOMAIN d.rows : ~IsNumericCell(d.rows[i][col])

\* lines 404-414: the sensitive attributes
ResolveSensitive(d, arg, target) ==
    LET IsSens(c) == Lower(c) \in SensitiveNames
        auto == IF arg = NoneArg THEN SelectSeq(d.columns, IsSens) ELSE arg
        text == {i \in DOMAIN d.columns :
                    d.columns[i] # target /\ IsObjectColumn(d, d.columns[i])}
    IN  IF auto # <<>> THEN auto
        ELSE IF text # {}
             THEN <<d.columns[CHOOSE i \in text : \A j \in text : i <= j]>>
             ELSE auto

\* line 420
FeatureCols(d, target) ==
    LET NotTarget(c) == c # target IN SelectSeq(d.columns, NotTarget)

\* lines 432-437: the target values as integers (a label, not tenths)
CoerceTarget(d, target) ==
    [i \in DOMAIN d.rows |->
        IF IsNumericCell(d.rows[i][target]) THEN CellNumber(d.rows[i][target]) \div 10
        ELSE 0]

\* lines 394-437, with lines 425-429: a string-array model gets random
\* labels and random probabilities, one per row
ResolveColumns ==
    /\ pc = "read"
    /\ LET t == ResolveTarget(test_data.columns) IN
          /\ target_col' = t
          /\ sensitive_attributes' = ResolveSensitive(test_data, sens_arg, t)
          /\ y_true' = CoerceTarget(test_data, t)
    /\ IF is_string_array
       THEN \E d \in [1..Len(test_data.rows) -> BinVals],
               p \in ProbaOutputs(Len(test_data.rows)) :
                y_pred' = IntVec(d) /\ probas' = p
       ELSE UNCHANGED <<y_pred, probas>>
    /\ pc' = "resolved"
    /\ UNCHANGED <<cvars, inputs, loadvars, test_data, predict_calls, latevars,
                   exc, result>>

\* Truncate to n entries, or pad with zeros up to n (lines 443-449, 497-501)
Reconcile(d, n) ==
    IF Len(d) >= n THEN SubSeq(d, 1, n)
    ELSE d \o [i \in 1..(n - Len(d)) |-> 0]

\* SimpleModel.predict, lines 339-346
SimpleModelPredict(yp, n) ==
    IF Len(yp) >= n THEN SubSeq(yp, 1, n)
    ELSE yp \o [i \in 1..(n - Len(yp)) |-> 0]

\* y_pred.astype(float) raises when a text entry is not a number
AstypeFloatRaises(v) == v.nonnum # {}
AstypeFloat(v) == FloatVec(v.data)

\* The outcome of lines 464-469 (or 474-475) given what predict returned:
\* probas comes from predict_proba when there is one, else from y_pred
ProbasFor(model, out, proba) ==
    IF model.predict_proba THEN proba ELSE AstypeFloat(out)
AttemptRaises(model, out) == ~model.predict_proba /\ AstypeFloatRaises(out)

\* lines 440-483.  predict is a function of the matrix it is given: when the
\* model has no feature_names_in_, X_encoded is X and the retry meets the
\* outcome of the first call again.
FirstMatrix == IF pipeline.feature_names_in_ THEN "X_encoded" ELSE "X"
Call(matrix, outcome) == [matrix |-> matrix, outcome |-> outcome]
\* An attempt (lines 452-469, or 474-475) fails when predict raises, and
\* also when predict has returned and a later statement of the attempt
\* raises: predict_proba, the [:, 1] on its result, or astype(float).
FailedCall(matrix) == {Call(matrix, o) : o \in {"raised", "returned"}}
Predicted(out, proba, calls) ==
    /\ ~AttemptRaises(pipeline, out)
    /\ y_pred' = out
    /\ probas' = ProbasFor(pipeline, out, proba)
    /\ predict_calls' = calls
    /\ pc' = "predicted" /\ result' = result
ProbasOffered(n) ==
    IF pipeline.predict_proba THEN ProbaOutputs(n) ELSE {NoneVec}

Predict ==
    /\ pc = "resolved"
    /\ LET n == Len(test_data.rows) IN
       IF y_pred # Unset /\ probas # NoneVec THEN
          \* lines 441-449: pre-loaded predictions
          /\ y_pred' = [y_pred EXCEPT !.data = Reconcile(y_pred.data, n)]
          /\ probas' = [probas EXCEPT !.data = Reconcile(probas.data, n)]
          /\ pc' = "predicted"
          /\ UNCHANGED <<predict_calls, result>>
       ELSE
          \/ \* lines 452-469 run through
             \E out \in PredictOffered(test_data.rows), proba \in ProbasOffered(n) :
                Predicted(out, proba, <<Call(FirstMatrix, "returned")>>)
          \/ \* lines 452-469 raise (predict, or astype on text labels); the
             \* retry on X, lines 474-475, runs through
             /\ pipeline.feature_names_in_
             /\ \E out \in PredictOffered(test_data.rows), proba \in ProbasOffered(n),
                   c1 \in FailedCall(FirstMatrix) :
                Predicted(out, proba, <<c1, Call("X", "returned")>>)
          \/ \* both attempts raise: lines 476-483
             /\ given = NoGiven
             /\ UNCHANGED <<y_pred, probas>>
             /\ \E c1 \in FailedCall(FirstMatrix), c2 \in FailedCall("X") :
                   predict_calls' = <<c1, c2>>
             /\ Return(ErrorResult(PyList(<<>>), "Failed to get predictions"))
    /\ UNCHANGED <<cvars, inputs, loadvars, datavars, latevars, exc>>

\* pd.to_numeric(errors='coerce') then nan_to_num: text that is no number is 0
ToNumeric(v) == [i \in DOMAIN v.data |-> IF i \in v.nonnum THEN 0 ELSE v.data[i]]
SeqMax(d) == CHOOSE x \in {d[i] : i \in DOMAIN d} : \A i \in DOMAIN d : d[i] <= x
SeqMin(d) == CHOOSE x \in {d[i] : i \in DOMAIN d} : \A i \in DOMAIN d : x <= d[i]
\* lines 490-493, on entries in tenths; the result holds labels 0/1
Binarize(d) ==
    IF SeqMax(d) > 10 \/ SeqMin(d) < 0
    THEN [i \in DOMAIN d |-> IF d[i] > 5 THEN 1 ELSE 0]
    ELSE [i \in DOMAIN d |-> d[i] \div 10]

\* lines 485-501; max() of an empty vector raises ValueError, which no
\* handler but the outer one catches
Normalize ==
    /\ pc = "predicted"
    /\ LET d == IF y_pred.dkind \in {"U", "S", "O"} THEN ToNumeric(y_pred) ELSE y_pred.data IN
       IF d = <<>> THEN
          /\ exc' = "zero-size array to reduction operation maximum which has no identity"
          /\ pc' = "raised"
          /\ UNCHANGED <<y_pred, probas>>
       ELSE
          /\ y_pred' = IntVec(Binarize(d))
          /\ probas' = IF probas = NoneVec THEN FloatVec([i \in DOMAIN d |-> 10 * Binarize(d)[i]])
                       ELSE [probas EXCEPT !.data = Reconcile(probas.data, Len(d))]
          /\ pc' = "normalized"
          /\ exc' = exc
    /\ UNCHANGED <<cvars, inputs, loadvars, datavars, predict_calls, latevars, result>>

(***************************************************************************)
(* Groups, re-ranking and group metrics                                    *)
(***************************************************************************)
\* Series.unique(): the distinct values in order of first appearance
Unique(seq) ==
    LET IsFirst(i) == \A j \in 1..(i - 1) : seq[j] # seq[i]
        idx == SelectSeq([i \in DOMAIN seq |-> i], IsFirst)
    IN  [k \in DOMAIN idx |-> seq[idx[k]]]

\* f"{col}={val}"
GroupId(col, val) == col \o "=" \o val

\* for col in sensitive_attributes: if col in X.columns: for val in X[col].unique()
RECURSIVE GroupsFrom(_, _, _)
GroupsFrom(d, sens, k) ==
    IF k > Len(sens) THEN <<>>
    ELSE LET col == sens[k]
             here == IF InSeq(col, FeatureCols(d, target_col))
                     THEN LET u == Unique(Column(d, col))
                          IN  [j \in DOMAIN u |-> [col |-> col, val |-> u[j]]]
                     ELSE <<>>
         IN  here \o GroupsFrom(d, sens, k + 1)
Groups(d, sens) == GroupsFrom(d, sens, 1)

\* np.where(X[col] == val)[0], as 1-based positions
GroupIndices(d, g) == {i \in DOMAIN d.rows : d.rows[i][g.col] = g.val}

\* The rows a group's top num_to_select can be: argsort orders equal
\* probabilities in an unspecified way, so any choice that never prefers a
\* lower probability to a higher one is possible (lines 535-541).
TopChoices(idx, p, k) ==
    {S \in SUBSET idx :
        /\ Cardinality(S) = k
        /\ \A a \in S, b \in idx \ S : p[a] >= p[b]}

\* a variant that keeps every row of the group selected
NumToSelectAll(size) == size

\* int(intended_rate * len(sorted_indices)) with intended_rate 0.5
NumToSelect(size) == size \div 2

Overwrite(y, idx, S) ==
    [i \in DOMAIN y |-> IF i \in S THEN 1 ELSE IF i \in idx THEN 0 ELSE y[i]]

RECURSIVE RerankFrom(_, _, _, _, _)
RerankFrom(Y, d, gs, p, k) ==
    IF k > Len(gs) THEN Y
    ELSE LET idx == GroupIndices(d, gs[k])
             next == {Overwrite(y, idx, S) :
                        y \in Y, S \in TopChoices(idx, p, NumToSelect(Cardinality(idx)))}
         IN  RerankFrom(next, d, gs, p, k + 1)

\* np.argsort is a function of the array it sorts: an invocation that meets
\* the probabilities of an earlier one on the same files orders every group
\* the same way
SortedAsBefore == first # NoFirst /\ probas = first.probas

\* lines 515-541.  probas[group_indices] raises IndexError when a group
\* holds a row past the end of probas.
Rerank ==
    /\ pc = "normalized"
    /\ LET gs == Groups(test_data, sensitive_attributes)
           m == Len(probas.data) IN
       IF \E k \in DOMAIN gs : \E i \in GroupIndices(test_data, gs[k]) : i > m THEN
          /\ exc' = "index out of bounds"
          /\ pc' = "raised"
          /\ UNCHANGED y_pred_biased
       ELSE
          /\ y_pred_biased' \in RerankFrom({y_pred.data}, test_data, gs, probas.data, 1)
          /\ SortedAsBefore =>
                \A k \in DOMAIN gs : \A i \in GroupIndices(test_data, gs[k]) :
                    y_pred_biased'[i] = first.y_pred_biased[i]
          /\ pc' = "reranked"
          /\ exc' = exc
    /\ UNCHANGED <<cvars, inputs, loadvars, datavars, predvars, metrics, response_data,
                   result>>

\* ---- tagged numbers
IsNumber(x) == x.t \in {"int", "float", "np.integer", "np.floating"}
Val(x) == IF x.t \in {"int", "np.integer"} THEN Frac(x.v, 1) ELSE x.v
FAdd(a, b) == Frac(a[1] * b[2] + b[1] * a[2], a[2] * b[2])
FSub(a, b) == Frac(a[1] * b[2] - b[1] * a[2], a[2] * b[2])
FMul(a, b) == Frac(a[1] * b[1], a[2] * b[2])
FAbs(a) == <<Abs(a[1]), a[2]>>
FLess(a, b) == Finite(a) /\ Finite(b) /\ a[1] * b[2] < b[1] * a[2]
FLeq(a, b) == Finite(a) /\ Finite(b) /\ a[1] * b[2] <= b[1] * a[2]
Zero == Frac(0, 1)
One == Frac(1, 1)

\* The type of the result of arithmetic on two Python numbers
Wider(a, b) ==
    IF "np.floating" \in {a.t, b.t} THEN "np.floating"
    ELSE IF "float" \in {a.t, b.t} THEN "float"
    ELSE IF "np.integer" \in {a.t, b.t} THEN "np.integer"
    ELSE "int"
Num(t, f) == IF t \in {"int", "np.integer"} THEN [t |-> t, v |-> f[1]] ELSE [t |-> t, v |-> f]
\* abs(a - b)
AbsDiff(a, b) == Num(Wider(a, b), FAbs(FSub(Val(a), Val(b))))

Sum(seq) ==
    LET RECURSIVE S(_)
        S(k) == IF k = 0 THEN 0 ELSE seq[k] + S(k - 1)
    IN  S(Len(seq))
RECURSIVE FSum(_, _)
FSum(seq, k) == IF k = 0 THEN Zero ELSE FAdd(Val(seq[k]), FSum(seq, k - 1))
\* np.mean of a list of numbers: a numpy float; nan for the empty list
NpMean(seq) ==
    LET s == FSum(seq, Len(seq)) IN NpFloat(Frac(s[1], s[2] * Len(seq)))

\* lines 503-504, on a vector of 0/1 labels
selection_rate(y) == NpFloat(Frac(Sum(y), Len(y)))

\* sklearn confusion_matrix(y_t, y_p, labels=[0, 1]).ravel(): rows whose
\* label or prediction is neither 0 nor 1 are left out
Count(y_t, y_p, t, p) == Cardinality({i \in DOMAIN y_t : y_t[i] = t /\ y_p[i] = p})
confusion_matrix(y_t, y_p) ==
    [tn |-> Count(y_t, y_p, 0, 0), fp |-> Count(y_t, y_p, 0, 1),
     fn |-> Count(y_t, y_p, 1, 0), tp |-> Count(y_t, y_p, 1, 1)]
\* confusion_matrix raises ValueError when no label of [0, 1] occurs in y_t
NoLabelIn(y_t) == \A i \in DOMAIN y_t : y_t[i] \notin {0, 1}

\* a variant that divides by the predicted positives (precision)
tprOverPredicted(y_t, y_p) ==
    LET c == confusion_matrix(y_t, y_p)
    IN  IF (c.tp + c.fp) > 0 THEN NpFloat(Frac(c.tp, c.tp + c.fp)) ELSE PyInt(0)

\* lines 506-508
tpr(y_t, y_p) ==
    LET c == confusion_matrix(y_t, y_p)
    IN  IF (c.tp + c.fn) > 0 THEN NpFloat(Frac(c.tp, c.tp + c.fn)) ELSE PyInt(0)

\* lines 510-512
fpr(y_t, y_p) ==
    LET c == confusion_matrix(y_t, y_p)
    IN  IF (c.fp + c.tn) > 0 THEN NpFloat(Frac(c.fp, c.fp + c.tn)) ELSE PyInt(0)

\* y[group_mask]
Masked(y, idx) ==
    LET In(i) == i \in idx
        pos == SelectSeq([i \in DOMAIN y |-> i], In)
    IN  [k \in DOMAIN pos |-> y[pos[k]]]

\* lines 557-564: a ValueError inside tpr / fpr is replaced by 0.0
Guarded(y_t, rate) == IF NoLabelIn(y_t) THEN PyFloat(Zero) ELSE rate

GroupKeys(d, gs) == {GroupId(gs[k].col, gs[k].val) : k \in DOMAIN gs}
GroupOf(gs, key) == gs[CHOOSE k \in DOMAIN gs : GroupId(gs[k].col, gs[k].val) = key]

MetricsOf(d, gs, yt, yb) ==
    LET keys == GroupKeys(d, gs)
        T(key) == Masked(yt, GroupIndices(d, GroupOf(gs, key)))
        P(key) == Masked(yb, GroupIndices(d, GroupOf(gs, key)))
    IN  PyDict(
          [name \in {"Selection Rate", "TPR", "FPR", "EO_TPR"} |->
            PyDict([key \in keys |->
                CASE name = "Selection Rate" -> selection_rate(P(key))
                  [] name = "FPR" -> Guarded(T(key), fpr(T(key), P(key)))
                  [] OTHER -> Guarded(T(key), tpr(T(key), P(key)))])])

\* lines 544-577.  y_pred_biased[group_mask] raises IndexError when the
\* mask (one entry per row) and y_pred_biased differ in length.
ComputeMetrics ==
    /\ pc = "reranked"
    /\ LET gs == Groups(test_data, sensitive_attributes) IN
       IF gs # <<>> /\ Len(y_pred_biased) # Len(test_data.rows) THEN
          /\ exc' = "boolean index did not match indexed array"
          /\ pc' = "raised"
          /\ UNCHANGED metrics
       ELSE
          /\ metrics' = MetricsOf(test_data, gs, y_true, y_pred_biased)
          /\ pc' = "measured"
          /\ exc' = exc
    /\ UNCHANGED <<cvars, inputs, loadvars, datavars, predvars, y_pred_biased,
                   response_data, result>>

(***************************************************************************)
(* Scoring and the response                                                *)
(***************************************************************************)
\* str(d) of a number, and Python's substring test "a in b"
ReprDigits == 16
Digit(k) == <<"0", "1", "2", "3", "4", "5", "6", "7", "8", "9">>[k + 1]
RECURSIVE IntStr(_)
IntStr(n) == IF n < 10 THEN Digit(n) ELSE IntStr(n \div 10) \o Digit(n % 10)
RECURSIVE FracDigits(_, _, _)
FracDigits(r, d, k) ==
    IF r = 0 \/ k = 0 THEN ""
    ELSE Digit((10 * r) \div d) \o FracDigits((10 * r) % d, d, k - 1)
Str(x) ==
    IF x.t \in {"int", "np.integer"} THEN
        (IF x.v < 0 THEN "-" ELSE "") \o IntStr(Abs(x.v))
    ELSE IF IsNaN(x.v) THEN "nan"
    ELSE IF IsInf(x.v) THEN (IF x.v[1] < 0 THEN "-inf" ELSE "inf")
    ELSE LET n == Abs(x.v[1])
             d == x.v[2]
         IN  (IF x.v[1] < 0 THEN "-" ELSE "") \o IntStr(n \div d) \o "." \o
             (IF n % d = 0 THEN "0" ELSE FracDigits(n % d, d, ReprDigits))
Contains(sub, str) ==
    \E i \in 1..(Len(str) - Len(sub) + 1) : SubSeq(str, i, i + Len(sub) - 1) = sub

\* round(x, 3): to the nearest thousandth, a tie to the even one
RoundHalfEven(n, d) ==
    LET q == n \div d
        r == n % d
    IN  IF 2 * r < d THEN q
        ELSE IF 2 * r > d THEN q + 1
        ELSE IF q % 2 = 0 THEN q ELSE q + 1
Round3(x) ==
    IF x.t \in {"int", "np.integer"} \/ ~Finite(x.v) THEN x
    ELSE [t |-> x.t, v |-> Frac(RoundHalfEven(1000 * x.v[1], x.v[2]), 1000)]

\* lines 582-603: per attribute with two or more values, the absolute
\* differences between the groups of its first two values
CompareCols(d, sens) ==
    LET Has2(col) == InSeq(col, FeatureCols(d, target_col))
                        /\ Len(Unique(Column(d, col))) >= 2
    IN  SelectSeq(sens, Has2)
\* a variant that compares the first value with the last
PairOfFirstAndLast(d, col) ==
    LET u == Unique(Column(d, col)) IN <<GroupId(col, u[1]), GroupId(col, u[Len(u)])>>

PairOf(d, col) ==
    LET u == Unique(Column(d, col)) IN <<GroupId(col, u[1]), GroupId(col, u[2])>>
DiffsOf(d, sens, m, name) ==
    LET cc == CompareCols(d, sens)
    IN  [k \in DOMAIN cc |->
            AbsDiff(m.v[name].v[PairOf(d, cc[k])[1]], m.v[name].v[PairOf(d, cc[k])[2]])]

\* lines 606-609
AverageOdds(fpr_diffs, tpr_diffs) ==
    IF fpr_diffs # <<>> /\ tpr_diffs # <<>>
    THEN NpFloat(FMul(Half, FAdd(NpMean(fpr_diffs).v, NpMean(tpr_diffs).v)))
    ELSE PyInt(0)

\* lines 611-615
BiasScore(dp_diffs, eo_diffs, aod, fpr_diffs, tpr_diffs) ==
    NpMean(dp_diffs \o eo_diffs \o <<aod>> \o fpr_diffs \o tpr_diffs)

\* line 617: max(0, min(1, 1 - bias_score)); min and max return their first
\* argument unless the other is strictly smaller, resp. larger
PyMin(a, b) == IF FLess(Val(b), Val(a)) THEN b ELSE a
PyMax(a, b) == IF FLess(Val(a), Val(b)) THEN b ELSE a
FairnessScore(bias_score) ==
    PyMax(PyInt(0), PyMin(PyInt(1), NpFloat(FSub(One, bias_score.v))))

\* lines 626-629: the mean of the diffs whose text contains the column name
OwnDiff(col, diffs) ==
    LET Mine(x) == Contains(col, Str(x))
    IN  IF diffs # <<>> THEN Round3(NpMean(SelectSeq(diffs, Mine))) ELSE PyInt(0)

\* line 632
GroupMetricsFor(col, m) ==
    LET Kept(name) == \E key \in DOMAIN m.v[name].v : Contains(col, key)
    IN  PyDict([name \in {nm \in DOMAIN m.v : Kept(nm)} |-> m.v[name]])

\* line 637
CertificationThreshold == Frac(85, 100)
\* a variant that certifies from one half upwards
CertificationStatusFromHalf(score) ==
    IF FLeq(Frac(1, 2), Val(score)) THEN "CERTIFIED FAIR" ELSE "NOT FAIR"

CertificationStatus(score) ==
    IF FLeq(CertificationThreshold, Val(score)) THEN "CERTIFIED FAIR" ELSE "NOT FAIR"

TopDiff(diffs) == IF diffs # <<>> THEN Round3(NpMean(diffs)) ELSE PyInt(0)

\* a variant without the test "col in X.columns"
AnalyzedColsUnguarded(d, sens) == sens

AnalyzedCols(d, sens) ==
    LET InX(col) == InSeq(col, FeatureCols(d, target_col)) IN SelectSeq(sens, InX)

ResponseData(d, sens, m) ==
    LET dp_diffs == DiffsOf(d, sens, m, "Selection Rate")
        eo_diffs == DiffsOf(d, sens, m, "EO_TPR")
        fpr_diffs == DiffsOf(d, sens, m, "FPR")
        tpr_diffs == DiffsOf(d, sens, m, "TPR")
        aod == AverageOdds(fpr_diffs, tpr_diffs)
        bias_score == BiasScore(dp_diffs, eo_diffs, aod, fpr_diffs, tpr_diffs)
        fairness_score == FairnessScore(bias_score)
        cols == AnalyzedCols(d, sens)
        gs == Groups(d, sens)
        bias_metrics ==
            PyDict([col \in {cols[k] : k \in DOMAIN cols} |->
                PyDict([demographic_parity_diff |-> OwnDiff(col, dp_diffs),
                        equal_opportunity_diff |-> OwnDiff(col, eo_diffs),
                        fpr_diff |-> OwnDiff(col, fpr_diffs),
                        tpr_diff |-> OwnDiff(col, tpr_diffs),
                        average_odds_diff |-> Round3(aod),
                        fairness_score |-> Round3(fairness_score),
                        group_metrics |-> GroupMetricsFor(col, m)])])
    IN  PyDict(
          [fairness_score |-> Round3(fairness_score),
           intentional_bias |-> PyList([k \in DOMAIN cols |-> PyStr(cols[k])]),
           bias_metrics |-> bias_metrics,
           sensitive_attributes_analyzed |-> PyList([k \in DOMAIN sens |-> PyStr(sens[k])]),
           certification_status |-> PyStr(CertificationStatus(fairness_score)),
           intended_selection_rates |->
                PyDict([key \in GroupKeys(d, gs) |-> PyFloat(Half)]),
           actual_selection_rates |-> m.v["Selection Rate"],
           demographic_parity_diff |-> TopDiff(dp_diffs),
           equal_opportunity_diff |-> TopDiff(eo_diffs),
           fpr_diff |-> TopDiff(fpr_diffs),
           tpr_diff |-> TopDiff(tpr_diffs),
           average_odds_diff |-> Round3(aod)])

\* lines 580-652
Score ==
    /\ pc = "measured"
    /\ response_data' = ResponseData(test_data, sensitive_attributes, metrics)
    /\ pc' = "scored"
    /\ UNCHANGED <<cvars, inputs, loadvars, datavars, predvars, y_pred_biased, metrics,
                   exc, result>>

\* line 657
Format ==
    /\ pc = "scored"
    /\ Return(convert_numpy_types(response_data))
    /\ UNCHANGED <<cvars, inputs, loadvars, datavars, predvars, latevars, exc>>

\* a variant whose outer handler lets the exception through: the caller
\* gets no result mapping
TopLevelCatchReraises ==
    /\ pc = "raised"
    /\ Return(None)
    /\ exc' = exc
    /\ UNCHANGED <<cvars, inputs, loadvars, datavars, predvars, latevars>>

\* lines 659-668: the outer handler
TopLevelCatch ==
    /\ pc = "raised"
    /\ Return(ErrorResult(PyList(<<>>), exc))
    /\ exc' = ""
    /\ UNCHANGED <<cvars, inputs, loadvars, datavars, predvars, latevars>>

\* line 297: the function is called again, on the same files and with the
\* same argument; every local is fresh
InvokeAgain ==
    /\ pc = "done" /\ given # NoGiven /\ first = NoFirst
    /\ first' = [result |-> result, probas |-> probas,
                 y_pred_biased |-> y_pred_biased]
    /\ pc' = "start"
    /\ pipeline' = NoModel /\ is_string_array' = FALSE
    /\ y_pred' = Unset /\ probas' = NoneVec /\ predict_calls' = <<>>
    /\ test_data' = NoData /\ target_col' = "" /\ sensitive_attributes' = <<>>
    /\ y_true' = <<>> /\ y_pred_biased' = <<>> /\ metrics' = None
    /\ response_data' = None /\ exc' = "" /\ result' = None
    /\ UNCHANGED <<cvars, scope, sens_arg, given>>

Next ==
    \/ PickleLoad \/ JoblibLoad \/ AdaptModel \/ LoadDataset \/ ResolveColumns
    \/ Predict \/ Normalize \/ Rerank \/ ComputeMetrics \/ Score \/ Format
    \/ TopLevelCatch \/ InvokeAgain

Spec == Init /\ [][Next]_vars

(***************************************************************************)
(* The analysis from the re-ranked predictions on: a table of M rows        *)
(* followed by F rows, analysed on gender, given by each group's counts     *)
(* after the re-ranking pass (which leaves n div 2 rows of a group          *)
(* selected).  The model is one with predict only whose labels are the      *)
(* selection itself, so that the re-ranking keeps them.                     *)
(***************************************************************************)
GroupCounts(maxn) ==
    {c \in [n : 1..maxn, tp : 0..maxn, fn : 0..maxn, fp : 0..maxn, tn : 0..maxn] :
        /\ c.tp + c.fn + c.fp + c.tn = c.n
        /\ c.tp + c.fp = NumToSelect(c.n)}
Repeat(x, k) == [i \in 1..k |-> x]
\* the rows of one group: its label column and its selected column
BlockLabels(c) == Repeat(1, c.tp + c.fn) \o Repeat(0, c.fp + c.tn)
BlockSelected(c) == Repeat(1, c.tp) \o Repeat(0, c.fn) \o Repeat(1, c.fp) \o Repeat(0, c.tn)
BlockRows(g, c) ==
    [i \in 1..c.n |-> [gender |-> g, label |-> IF BlockLabels(c)[i] = 1 THEN "1" ELSE "0"]]

InitScoring ==
    \E a \in GroupCounts(MaxFirstGroup), b \in GroupCounts(MaxSecondGroup) :
        LET sel == BlockSelected(a) \o BlockSelected(b) IN
        /\ cpc = "idle" /\ cx = None /\ cy = None /\ cz = None /\ KIdle
        /\ scope = "scoring" /\ sens_arg = <<"gender">>
        /\ given = NoGiven /\ first = NoFirst
        /\ pipeline = Estimator(TRUE, FALSE, FALSE) /\ is_string_array = FALSE
        /\ test_data = Dataset(GenderLabel, BlockRows("M", a) \o BlockRows("F", b))
        /\ target_col = "label" /\ sensitive_attributes = <<"gender">>
        /\ y_true = BlockLabels(a) \o BlockLabels(b)
        /\ predict_calls = <<Call("X", "returned")>>
        /\ y_pred = IntVec(sel)
        /\ probas = FloatVec([i \in DOMAIN sel |-> 10 * sel[i]])
        /\ y_pred_biased = sel
        /\ metrics = None /\ response_data = None /\ exc = "" /\ result = None
        /\ pc = "reranked"

NextScoring == ComputeMetrics \/ Score \/ Format

SpecScoring == InitScoring /\ [][NextScoring]_vars

(***************************************************************************)
(* convert_numpy_types as a program of its own: applied once, then again   *)
(***************************************************************************)
CInit == cpc = "in" /\ cx \in Values /\ cy = None /\ cz = None /\ PIdle /\ KIdle

ConvertOnce ==
    /\ cpc = "in"
    /\ cy' = convert_numpy_types(cx)
    /\ cpc' = "once"
    /\ UNCHANGED <<cx, cz, kvars, pvars>>

ConvertTwice ==
    /\ cpc = "once"
    /\ cz' = convert_numpy_types(cy)
    /\ cpc' = "twice"
    /\ UNCHANGED <<cx, cy, kvars, pvars>>

CNext == ConvertOnce \/ ConvertTwice

SpecConvert == CInit /\ [][CNext]_vars

(***************************************************************************)
(* certify_model, served to two requests at once.  The endpoint is a plain *)
(* def, which the framework runs on a worker thread per request; the two   *)
(* threads share the assets directory and the one database connection,     *)
(* which is opened with the driver's default of committing each statement. *)
(* Time is counted in ticks, finer than the second the file names hold.    *)
(***************************************************************************)
Requests == {1, 2}
\* table MODELS: ID -> NAME
MODELS == [id \in {1} |-> "credit"]
ModelIds == {1, 2}
Filenames == {"a.pkl", "b.pkl"}
NoPath == <<>>
PyBool(b) == [t |-> "bool", v |-> b]

\* datetime.now().strftime('%Y%m%d_%H%M%S'): the time down to the second
Strftime(t) == t \div TicksPerSecond
\* os.path.join(model_assets_dir, f"{prefix}_{timestamp}{tail}")
PathOf(id, prefix, t, tail) == <<"assets", id, prefix, Strftime(t), tail>>
\* open(path, "wb") / open(path, "w"), then the write: what the path held
\* before is gone
WriteFile(fs, path, content) ==
    [p \in DOMAIN fs \cup {path} |-> IF p = path THEN content ELSE fs[p]]
Upload(r, part) == [by |-> r, part |-> part]

NewRequest(id, name) ==
    [pc |-> "save_model", model_id |-> id, filename |-> name,
     model_file_path |-> NoPath, dataset_file_path |-> NoPath,
     unbiased_dataset_path |-> NoPath, fairness_results |-> None,
     report_id |-> 0, certification_type_id |-> 0, response |-> None]

\* What perform_fairness_analysis hands back: the two kinds of failure
\* result, and its result on a table of two M and two F rows for two of
\* the selections the re-ranking can leave.
SampleData ==
    Dataset(GenderLabel,
            <<[gender |-> "M", label |-> "1"], [gender |-> "M", label |-> "0"],
              [gender |-> "F", label |-> "1"], [gender |-> "F", label |-> "0"]>>)
AnalysisOf(yb) ==
    convert_numpy_types(
        ResponseData(SampleData, <<"gender">>,
                     MetricsOf(SampleData, Groups(SampleData, <<"gender">>),
                               <<1, 0, 1, 0>>, yb)))
AnalysisResults ==
    {ErrorResult(PyStr("[]"), "Failed to load model"),
     ErrorResult(PyList(<<>>), "Failed to get predictions"),
     AnalysisOf(<<1, 0, 1, 0>>), AnalysisOf(<<1, 0, 0, 1>>)}

\* request 1 meets every kind of result, the request served next to it a
\* certified one
ResultsOffered(r) == IF r = 1 THEN AnalysisResults ELSE {AnalysisOf(<<1, 0, 1, 0>>)}

\* dict.get(key, default)
Get(d, key, default) == IF key \in DOMAIN d.v THEN d.v[key] ELSE default
\* the truth value of a Python object
Truthy(x) ==
    CASE x.t = "NoneType" -> FALSE
      [] x.t = "dict" -> DOMAIN x.v # {}
      [] x.t = "list" -> x.v # <<>>
      [] x.t = "str" -> x.v # ""
      [] OTHER -> TRUE

\* lines 888-908
CertName(fr) ==
    IF ~Truthy(fr) THEN "Analysis Failed"
    ELSE IF Get(fr, "certification_status", PyStr("NOT FAIR")) = PyStr("CERTIFIED FAIR")
         THEN "Certified Fair"
    ELSE IF FLeq(Frac(7, 10), Val(Get(fr, "fairness_score", PyFloat(Half))))
         THEN "Fair with Minor Bias"
    ELSE IF Truthy(Get(fr, "intentional_bias", PyList(<<>>)))
         THEN "Intentional Bias Detected"
    ELSE "Biased - Requires Mitigation"

\* SELECT MAX(ID) FROM <table> WHERE MODEL_ID = ?  (IDs are the positions)
MaxIdFor(rows, id) ==
    LET hits == {i \in DOMAIN rows : rows[i].MODEL_ID = id}
    IN  CHOOSE i \in hits : \A j \in hits : j <= i
\* SELECT ID FROM CERTIFICATION_TYPES WHERE NAME = ?, fetchone()
TypeIds(types, name) == {i \in DOMAIN types : types[i] = name}

\* lines 954-992
ResponseOf(q, version) ==
    LET fr == q.fairness_results
        files == [model_file |-> PyStr(q.model_file_path),
                  dataset_file |-> PyStr(q.dataset_file_path)]
        files_saved ==
            IF q.unbiased_dataset_path # NoPath
            THEN [unbiased_test_dataset |-> PyStr(q.unbiased_dataset_path)] @@ files
            ELSE files
        base ==
            [message |-> PyStr("Model certification completed successfully"),
             model_id |-> PyInt(q.model_id),
             model_name |-> PyStr(MODELS[q.model_id]),
             version_id |-> PyInt(version.ID),
             version_name |-> PyStr(version.NAME),
             report_id |-> PyInt(q.report_id),
             certification_type_id |-> PyInt(q.certification_type_id),
             certificate_type |-> PyStr(CertName(fr)),
             certification_status |->
                IF Truthy(fr) THEN Get(fr, "certification_status", PyStr("NOT FAIR"))
                ELSE PyStr("ANALYSIS_FAILED"),
             status |-> PyStr("certified"),
             files_saved |-> PyDict(files_saved),
             unbiased_test_data_generated |-> PyBool(q.unbiased_dataset_path # NoPath),
             fairness_analysis_performed |-> PyBool(fr # None)]
        Copied(key, default) == convert_numpy_types(Get(fr, key, default))
        update ==
            [fairness_score |-> Copied("fairness_score", PyFloat(Half)),
             intentional_bias |-> Copied("intentional_bias", PyList(<<>>)),
             bias_metrics |-> Copied("bias_metrics", EmptyDict),
             sensitive_attributes_analyzed |->
                Copied("sensitive_attributes_analyzed", PyList(<<>>)),
             certification_status |-> Copied("certification_status", PyStr("NOT FAIR")),
             intended_selection_rates |-> Copied("intended_selection_rates", EmptyDict),
             actual_selection_rates |-> Copied("actual_selection_rates", EmptyDict),
             demographic_parity_diff |-> Copied("demographic_parity_diff", PyInt(0)),
             equal_opportunity_diff |-> Copied("equal_opportunity_diff", PyInt(0)),
             fpr_diff |-> Copied("fpr_diff", PyInt(0)),
             tpr_diff |-> Copied("tpr_diff", PyInt(0)),
             average_odds_diff |-> Copied("average_odds_diff", PyInt(0))]
    IN  convert_numpy_types(
            PyDict(IF Truthy(fr) THEN update @@ base ELSE base))

InitCertify ==
    /\ PIdle /\ cpc = "idle" /\ cx = None /\ cy = None /\ cz = None
    /\ clock = 0 /\ assets = <<>> /\ db = EmptyDb
    /\ \E id \in ModelIds, name \in Filenames :
          reqs = [r \in Requests |->
                    IF r = 1 THEN NewRequest(1, "a.pkl") ELSE NewRequest(id, name)]

\* time passes
Tick ==
    /\ clock < MaxClock
    /\ clock' = clock + 1
    /\ UNCHANGED <<cpc, cx, cy, cz, pvars, assets, db, reqs>>

Goto(r, label) == reqs' = [reqs EXCEPT ![r].pc = label]

\* lines 771-773
SaveModel(r) ==
    /\ reqs[r].pc = "save_model"
    /\ LET path == PathOf(reqs[r].model_id, "model", clock, reqs[r].filename) IN
          /\ assets' = WriteFile(assets, path, Upload(r, "model"))
          /\ reqs' = [reqs EXCEPT ![r].model_file_path = path, ![r].pc = "save_dataset"]
    /\ UNCHANGED <<cpc, cx, cy, cz, pvars, clock, db>>

\* lines 775-777; both requests upload a dataset file named d.csv
SaveDataset(r) ==
    /\ reqs[r].pc = "save_dataset"
    /\ LET path == PathOf(reqs[r].model_id, "dataset", clock, "d.csv") IN
          /\ assets' = WriteFile(assets, path, Upload(r, "dataset"))
          /\ reqs' = [reqs EXCEPT ![r].dataset_file_path = path, ![r].pc = "generate"]
    /\ UNCHANGED <<cpc, cx, cy, cz, pvars, clock, db>>

\* lines 779-807: the generated dataset is written, or anything before the
\* write raises and the handler at line 802 leaves the path None
GenerateUnbiased(r) ==
    /\ reqs[r].pc = "generate"
    /\ \/ LET path == PathOf(reqs[r].model_id, "unbiased_test_dataset", clock, ".csv") IN
             /\ assets' = WriteFile(assets, path, Upload(r, "unbiased"))
             /\ reqs' = [reqs EXCEPT ![r].unbiased_dataset_path = path,
                                     ![r].pc = "analyse"]
       \/ /\ assets' = assets
          /\ reqs' = [reqs EXCEPT ![r].unbiased_dataset_path = NoPath,
                                  ![r].pc = "analyse"]
    /\ UNCHANGED <<cpc, cx, cy, cz, pvars, clock, db>>

\* lines 809-826.  perform_fairness_analysis returns a dict on every path
\* (its outer handler catches what is raised inside), so the handler at
\* line 819 has nothing to catch.
Analyse(r) ==
    /\ reqs[r].pc = "analyse"
    /\ IF reqs[r].unbiased_dataset_path # NoPath
          /\ reqs[r].model_file_path \in DOMAIN assets
       THEN \E fr \in ResultsOffered(r) :
               reqs' = [reqs EXCEPT ![r].fairness_results = fr, ![r].pc = "find_model"]
       ELSE Goto(r, "find_model")
    /\ UNCHANGED <<cpc, cx, cy, cz, pvars, clock, assets, db>>

\* lines 829-832: SELECT ... FROM MODELS; HTTPException 404 leaves through
\* line 996
FindModel(r) ==
    /\ reqs[r].pc = "find_model"
    /\ IF reqs[r].model_id \in DOMAIN MODELS THEN Goto(r, "insert_report")
       ELSE Goto(r, "raised 404")
    /\ UNCHANGED <<cpc, cx, cy, cz, pvars, clock, assets, db>>

\* lines 836-883 (of the columns, the ones read back: the text columns
\* BIAS_FEATURE, INTENTIONAL_BIAS and SHAP are left out)
InsertReport(r) ==
    /\ reqs[r].pc = "insert_report"
    /\ LET fr == reqs[r].fairness_results
           row == [MODEL_ID |-> reqs[r].model_id,
                   FAIRNESS_SCORE |->
                       IF Truthy(fr) THEN Get(fr, "fairness_score", PyFloat(Half))
                       ELSE PyFloat(Half)]
       IN  db' = [db EXCEPT !.REPORTS = Append(@, row)]
    /\ Goto(r, "read_report_id")
    /\ UNCHANGED <<cpc, cx, cy, cz, pvars, clock, assets>>

\* lines 885-886
ReadReportId(r) ==
    /\ reqs[r].pc = "read_report_id"
    /\ reqs' = [reqs EXCEPT ![r].report_id = MaxIdFor(db.REPORTS, reqs[r].model_id),
                            ![r].pc = "find_type"]
    /\ UNCHANGED <<cpc, cx, cy, cz, pvars, clock, assets, db>>

\* lines 910-914
FindCertType(r) ==
    /\ reqs[r].pc = "find_type"
    /\ LET ids == TypeIds(db.CERTIFICATION_TYPES, CertName(reqs[r].fairness_results)) IN
       IF ids # {}
       THEN reqs' = [reqs EXCEPT ![r].certification_type_id =
                                      CHOOSE i \in ids : \A j \in ids : i <= j,
                                 ![r].pc = "insert_version"]
       ELSE Goto(r, "insert_type")
    /\ UNCHANGED <<cpc, cx, cy, cz, pvars, clock, assets, db>>

\* lines 916-919
InsertCertType(r) ==
    /\ reqs[r].pc = "insert_type"
    /\ db' = [db EXCEPT !.CERTIFICATION_TYPES =
                            Append(@, CertName(reqs[r].fairness_results))]
    /\ Goto(r, "read_type_id")
    /\ UNCHANGED <<cpc, cx, cy, cz, pvars, clock, assets>>

\* lines 921-922: SELECT MAX(ID) FROM CERTIFICATION_TYPES
ReadCertTypeId(r) ==
    /\ reqs[r].pc = "read_type_id"
    /\ reqs' = [reqs EXCEPT ![r].certification_type_id = Len(db.CERTIFICATION_TYPES),
                            ![r].pc = "insert_version"]
    /\ UNCHANGED <<cpc, cx, cy, cz, pvars, clock, assets, db>>

\* lines 924-934
InsertVersion(r) ==
    /\ reqs[r].pc = "insert_version"
    /\ db' = [db EXCEPT !.VERSIONS =
                Append(@, [NAME |-> "v1",
                           CERTIFICATION_TYPE_ID |-> reqs[r].certification_type_id,
                           REPORT_ID |-> reqs[r].report_id,
                           MODEL_ID |-> reqs[r].model_id])]
    /\ Goto(r, "respond")
    /\ UNCHANGED <<cpc, cx, cy, cz, pvars, clock, assets>>

\* lines 936-994: the latest version of the model is read back and the
\* response is built
Respond(r) ==
    /\ reqs[r].pc = "respond"
    /\ LET id == MaxIdFor(db.VERSIONS, reqs[r].model_id)
           version == [ID |-> id, NAME |-> db.VERSIONS[id].NAME]
       IN  reqs' = [reqs EXCEPT ![r].response = ResponseOf(reqs[r], version),
                                ![r].pc = "returned"]
    /\ UNCHANGED <<cpc, cx, cy, cz, pvars, clock, assets, db>>

NextCertify ==
    \/ Tick
    \/ \E r \in Requests :
          \/ SaveModel(r) \/ SaveDataset(r) \/ GenerateUnbiased(r) \/ Analyse(r)
          \/ FindModel(r) \/ InsertReport(r) \/ ReadReportId(r)
          \/ FindCertType(r) \/ InsertCertType(r) \/ ReadCertTypeId(r)
          \/ InsertVersion(r) \/ Respond(r)

SpecCertify == InitCertify /\ [][NextCertify]_vars

(***************************************************************************)
(* Claims about convert_numpy_types (checked under SpecConvert)            *)
(***************************************************************************)
RECURSIVE HoldsObjectArray(_)
HoldsObjectArray(x) ==
    IF x.t = "np.ndarray" THEN x.kind = "O"
    ELSE IF x.t \in {"list", "tuple", "dict"} THEN
        \E k \in DOMAIN x.v : HoldsObjectArray(x.v[k])
    ELSE FALSE

\* No NaN, no Infinity, no numpy scalar and no numpy array anywhere in x.
RECURSIVE JsonClean(_)
JsonClean(x) ==
    IF x.t \in {"np.integer", "np.floating", "np.ndarray"} THEN FALSE
    ELSE IF x.t = "float" THEN Finite(x.v)
    ELSE IF x.t \in {"list", "tuple", "dict"} THEN
        \A k \in DOMAIN x.v : JsonClean(x.v[k])
    ELSE TRUE

\* C5: convert_numpy_types is idempotent: converting the converted value
\* again gives the same value, for every nested structure of dicts, lists,
\* numpy scalars/arrays and plain values, NaN and +/-Infinity included.
C5_Idempotent == cpc = "twice" => cz = cy

\* The part of C5 the code does keep: idempotent on every structure that
\* holds no object-dtype array.
C5_IdempotentWithoutObjectArrays ==
    (cpc = "twice" /\ ~HoldsObjectArray(cx)) => cz = cy

\* C6: after convert_numpy_types(x) no NaN or Infinity and no numpy scalar
\* or array remains anywhere in the returned structure, whatever kind of
\* number and whatever container (dict, list, tuple) held it.
C6_NoNaNNoNumpyLeft == cpc \in {"once", "twice"} => JsonClean(cy)

\* The part of C6 the code does keep: numpy floating scalars and elements of
\* float arrays held (at any depth) in dicts and lists come out clean.
RECURSIVE OnlyNumpyInDictsAndLists(_)
OnlyNumpyInDictsAndLists(x) ==
    IF x.t = "float" THEN Finite(x.v)
    ELSE IF x.t = "tuple" THEN \A k \in DOMAIN x.v : JsonClean(x.v[k])
    ELSE IF x.t = "np.ndarray" THEN x.kind # "O"
    ELSE IF x.t \in {"list", "dict"} THEN
        \A k \in DOMAIN x.v : OnlyNumpyInDictsAndLists(x.v[k])
    ELSE TRUE

C6_CleanWhenOnlyNumpyInDictsAndLists ==
    (cpc \in {"once", "twice"} /\ OnlyNumpyInDictsAndLists(cx)) => JsonClean(cy)

(***************************************************************************)
(* Properties of perform_fairness_analysis                                 *)
(***************************************************************************)
Returned == pc = "done"
Failed == Returned /\ result.t = "dict" /\ "error" \in DOMAIN result.v
Succeeded == Returned /\ result.t = "dict" /\ "error" \notin DOMAIN result.v

\* C1: the analysis returns normally for every input: an exception raised
\* inside it is caught by the outer handler, and what the analysis returns
\* is a mapping that holds a numeric fairness_score.
C1_AlwaysReturnsAMapping ==
    /\ (pc = "raised") => ENABLED TopLevelCatch
    /\ Returned => /\ result.t = "dict"
                   /\ "fairness_score" \in DOMAIN result.v
                   /\ IsNumber(result.v.fairness_score)

\* an exception raised in the metric loop was caught by the outer handler
C1_CaughtAtTopLevel ==
    /\ Failed
    /\ result.v.error = PyStr("boolean index did not match indexed array")

\* C2: every result with an error field has fairness_score 0.5 and an empty
\* bias_metrics mapping; an analysis that ends without a loaded dataset (the
\* model file was unreadable, or the table had no rows) ends with an error.
C2_ErrorResultsAreNeutral ==
    /\ Failed => /\ result.v.fairness_score = PyFloat(Frac(1, 2))
                 /\ result.v.bias_metrics = PyDict(<<>>)
    /\ (Returned /\ test_data = NoData) => Failed

C2_ZeroRowsReported ==
    /\ Failed
    /\ result.v.error = PyStr("Failed to load test dataset")
    /\ pipeline # NoModel

\* C3: for every group, TPR is TP / (TP + FN), and 0 when the group has no
\* row with ground-truth label 1; FPR is FP / (FP + TN), and 0 when the group
\* has no row with ground-truth label 0; both lie in [0, 1].
RowsOfGroup(g) == GroupIndices(test_data, g)
Positives(g) == {i \in RowsOfGroup(g) : y_true[i] = 1}
Negatives(g) == {i \in RowsOfGroup(g) : y_true[i] = 0}
Selected(S) == {i \in S : y_pred_biased[i] = 1}
RateOver(S) == IF S = {} THEN Zero ELSE Frac(Cardinality(Selected(S)), Cardinality(S))
InUnitInterval(x) == Finite(x) /\ FLeq(Zero, x) /\ FLeq(x, One)
Reported(name, g) == Val(metrics.v[name].v[GroupId(g.col, g.val)])
C3_RatesDefinedForEveryGroup ==
    metrics # None =>
        LET gs == Groups(test_data, sensitive_attributes) IN
        \A k \in DOMAIN gs :
            /\ Reported("TPR", gs[k]) = RateOver(Positives(gs[k]))
            /\ Reported("FPR", gs[k]) = RateOver(Negatives(gs[k]))
            /\ InUnitInterval(Reported("TPR", gs[k]))
            /\ InUnitInterval(Reported("FPR", gs[k]))

\* a group without positives that has a selected row, beside a group whose
\* labels are all outside {0, 1}
C3_EmptyDenominators ==
    /\ metrics # None
    /\ LET gs == Groups(test_data, sensitive_attributes) IN
        /\ \E k \in DOMAIN gs : Positives(gs[k]) = {} /\ Negatives(gs[k]) # {}
                                  /\ Selected(RowsOfGroup(gs[k])) # {}
        /\ \E k \in DOMAIN gs : Negatives(gs[k]) = {} /\ Positives(gs[k]) = {}

\* C4: average_odds_diff equals 0.5 * (fpr_diff + tpr_diff), at the top
\* level of a successful result and inside every bias_metrics entry.
HalfSumOf(e) == FMul(Frac(1, 2), FAdd(Val(e.fpr_diff), Val(e.tpr_diff)))
AverageOddsAgrees(e) == Val(e.average_odds_diff) = HalfSumOf(e)
C4_AverageOddsIsHalfSum ==
    Succeeded =>
        /\ AverageOddsAgrees(result.v)
        /\ \A col \in DOMAIN result.v.bias_metrics.v :
                AverageOddsAgrees(result.v.bias_metrics.v[col].v)

\* C7: with a model that has predict and no predict_proba, the probability
\* vector used by the re-ranking is the binarized prediction vector, and an
\* analysis whose predictions were normalized to one label per row ends
\* without an error field.
PredictOnly ==
    pipeline.kind = "object" /\ pipeline.predict /\ ~pipeline.predict_proba
C7_PredictOnlyUsesBinarized ==
    /\ (PredictOnly /\ pc = "normalized") =>
            probas.data = [i \in DOMAIN y_pred.data |-> 10 * y_pred.data[i]]
    /\ (PredictOnly /\ Returned /\ y_pred # Unset
            /\ Len(y_pred.data) = Len(test_data.rows)) => Succeeded

\* C8: whichever way the raw predictions were obtained, the normalized
\* prediction vector has one entry per row of the test table.
C8_NormalizedLengthIsN ==
    pc \in {"normalized", "reranked", "measured", "scored"} =>
        Len(y_pred.data) = Len(test_data.rows)

(***************************************************************************)
(* The two-group scenarios: as many M rows as F rows                       *)
(***************************************************************************)
GenderBalanced ==
    /\ test_data # NoData
    /\ InSeq("gender", test_data.columns)
    /\ \A i \in DOMAIN test_data.rows : test_data.rows[i].gender \in {"M", "F"}
    /\ CountGender(test_data.rows, "M") = CountGender(test_data.rows, "F")
GroupSize == CountGender(test_data.rows, "M")
GenderOnly == sensitive_attributes = <<"gender">>
ModelSaysOne == y_pred.data = [i \in DOMAIN test_data.rows |-> 1]
ModelFavoursM ==
    y_pred.data = [i \in DOMAIN test_data.rows |->
                        IF test_data.rows[i].gender = "M" THEN 1 ELSE 0]
ActualRate(key) == Val(result.v.actual_selection_rates.v[key])
Men == [col |-> "gender", val |-> "M"]
Women == [col |-> "gender", val |-> "F"]
TprGap == FAbs(FSub(Reported("TPR", Men), Reported("TPR", Women)))
FprGap == FAbs(FSub(Reported("FPR", Men), Reported("FPR", Women)))
EqualOdds == TprGap = Zero /\ FprGap = Zero
\* 1 - mean([0, tpr gap, 0.5 * (fpr gap + tpr gap), fpr gap, tpr gap])
ScoreFromGaps ==
    FSub(One, FAdd(FMul(Frac(1, 2), TprGap), FMul(Frac(3, 10), FprGap)))

\* C9 as stated: with as many M rows as F rows and a model that predicts 1
\* for every row, both groups are reported with selection rate 1.0, the
\* demographic parity difference is 0.0, and fairness_score is 1.0 when the
\* groups' TPR and FPR agree as well.
C9_AllOnesReportedAsOne ==
    (Succeeded /\ GenderBalanced /\ ModelSaysOne) =>
        /\ ActualRate("gender=M") = One
        /\ ActualRate("gender=F") = One
        /\ Val(result.v.demographic_parity_diff) = Zero
        /\ EqualOdds => Val(result.v.fairness_score) = One

\* C9: with as many M rows as F rows, a model that predicts 1 for every
\* row, and gender the only attribute analysed, both groups are reported
\* with the re-ranked selection rate floor(n / 2) / n (n rows per group), the
\* demographic parity difference is 0.0, and fairness_score is 1.0 when the
\* groups' TPR and FPR agree as well.
C9_AllOnesRerankedToHalf ==
    (Succeeded /\ GenderBalanced /\ ModelSaysOne /\ GenderOnly) =>
        /\ ActualRate("gender=M") = Frac(GroupSize \div 2, GroupSize)
        /\ ActualRate("gender=F") = Frac(GroupSize \div 2, GroupSize)
        /\ Val(result.v.demographic_parity_diff) = Zero
        /\ EqualOdds => Val(result.v.fairness_score) = One

C9_AllOnesAtFullSize ==
    /\ Succeeded /\ GenderBalanced /\ ModelSaysOne /\ GenderOnly
    /\ GroupSize = MaxHalf
    /\ EqualOdds

NothingCompared ==
    /\ Returned /\ test_data # NoData /\ metrics # None
    /\ CompareCols(test_data, sensitive_attributes) = <<>>
C11_NoComparisonIsAnError ==
    NothingCompared =>
        /\ Failed
        /\ result.v.fairness_score = PyFloat(Frac(1, 2))
        /\ result.v.bias_metrics = PyDict(<<>>)

\* C13: in every returned result intentional_bias is a list of strings.
IsListOfStrings(x) ==
    x.t = "list" /\ \A k \in DOMAIN x.v : x.v[k].t = "str"
C13_IntentionalBiasIsAList ==
    Returned => IsListOfStrings(result.v.intentional_bias)

\* C12: in every successful result certification_status is "CERTIFIED FAIR"
\* exactly when the fairness_score reported in that result is at least 0.85,
\* and "NOT FAIR" otherwise.
C12_VerdictMatchesReportedScore ==
    Succeeded =>
        /\ result.v.certification_status \in {PyStr("CERTIFIED FAIR"), PyStr("NOT FAIR")}
        /\ (result.v.certification_status = PyStr("CERTIFIED FAIR"))
                <=> FLeq(Frac(85, 100), Val(result.v.fairness_score))

\* C18: after the re-ranking pass, in every group of every analysed
\* attribute exactly floor(n / 2) of its n rows are predicted positive, and
\* no row predicted negative has a strictly higher probability than a row
\* of the same group predicted positive.
RerankedGroup(g) ==
    LET rows == RowsOfGroup(g) IN
    /\ Cardinality(Selected(rows)) = Cardinality(rows) \div 2
    /\ \A i \in rows \ Selected(rows), j \in Selected(rows) :
            probas.data[i] <= probas.data[j]
C18_EveryGroupRerankedToHalf ==
    pc \in {"reranked", "measured", "scored"} =>
        LET gs == Groups(test_data, sensitive_attributes) IN
        \A k \in DOMAIN gs : RerankedGroup(gs[k])

\* C17: an analysed attribute with fewer than two distinct values has no
\* entry in bias_metrics, and the fairness_score, the aggregate diffs and
\* the entries of the other attributes are those of an analysis in which
\* the attribute is not listed (the re-ranking pass included).
SingleValued(col) ==
    /\ InSeq(col, FeatureCols(test_data, target_col))
    /\ Len(Unique(Column(test_data, col))) < 2
Without(sens, col) == LET Other(c) == c # col IN SelectSeq(sens, Other)
OutcomesFor(sens) ==
    LET gs == Groups(test_data, sens) IN
    {convert_numpy_types(
        ResponseData(test_data, sens, MetricsOf(test_data, gs, y_true, yb))) :
            yb \in RerankFrom({y_pred.data}, test_data, gs, probas.data, 1)}
AggregateOf(r) ==
    <<r.v.fairness_score, r.v.demographic_parity_diff, r.v.equal_opportunity_diff,
      r.v.fpr_diff, r.v.tpr_diff, r.v.average_odds_diff>>
HasNoEntry(col) == col \notin DOMAIN result.v.bias_metrics.v
SameAsUnlisted(col) ==
    \E o \in OutcomesFor(Without(sensitive_attributes, col)) :
        /\ AggregateOf(o) = AggregateOf(result)
        /\ \A other \in DOMAIN o.v.bias_metrics.v :
                o.v.bias_metrics.v[other] = result.v.bias_metrics.v[other]
C17_SingleValuedAttributeIsSkipped ==
    Succeeded =>
        \A k \in DOMAIN sensitive_attributes :
            SingleValued(sensitive_attributes[k]) =>
                /\ HasNoEntry(sensitive_attributes[k])
                /\ SameAsUnlisted(sensitive_attributes[k])

\* C19: fairness_score is clamp(1 - bias_score, 0, 1), where bias_score is
\* the mean of one flat collection that holds, for every attribute with a
\* comparison pair, its dp_diff, eo_diff, average_odds_diff, fpr_diff and
\* tpr_diff; the score lies in [0, 1].
PairGap(name, col) ==
    LET pair == PairOf(test_data, col)
    IN  FAbs(FSub(Val(metrics.v[name].v[pair[1]]), Val(metrics.v[name].v[pair[2]])))
FiveDiffs(col) ==
    <<PyFloat(PairGap("Selection Rate", col)), PyFloat(PairGap("EO_TPR", col)),
      PyFloat(FMul(Frac(1, 2), FAdd(PairGap("FPR", col), PairGap("TPR", col)))),
      PyFloat(PairGap("FPR", col)), PyFloat(PairGap("TPR", col))>>
RECURSIVE FlatDiffs(_, _)
FlatDiffs(cols, k) ==
    IF k = 0 THEN <<>> ELSE FlatDiffs(cols, k - 1) \o FiveDiffs(cols[k])
Clamp01(x) == IF FLess(x, Zero) THEN Zero ELSE IF FLess(One, x) THEN One ELSE x
PolicyBScore ==
    LET cols == CompareCols(test_data, sensitive_attributes)
    IN  Clamp01(FSub(One, NpMean(FlatDiffs(cols, Len(cols))).v))
C19_ScoreFollowsPolicyB ==
    (Succeeded /\ CompareCols(test_data, sensitive_attributes) # <<>>) =>
        /\ Val(result.v.fairness_score) = Val(Round3(PyFloat(PolicyBScore)))
        /\ InUnitInterval(Val(result.v.fairness_score))

\* C20 as stated: for an attribute with two or more values the comparison
\* pair is its first two distinct values in order of first appearance,
\* dp_diff, eo_diff, fpr_diff and tpr_diff are the absolute differences of
\* those two groups' selection rate, TPR, FPR and TPR, and the rows of a
\* third or later value change none of these diffs nor the fairness score.
Analysis(d, yt, yb, sens) ==
    LET m == MetricsOf(d, Groups(d, sens), yt, yb) IN
    [cols |-> CompareCols(d, sens),
     dp |-> DiffsOf(d, sens, m, "Selection Rate"), eo |-> DiffsOf(d, sens, m, "EO_TPR"),
     fpr |-> DiffsOf(d, sens, m, "FPR"), tpr |-> DiffsOf(d, sens, m, "TPR"),
     score |-> Round3(FairnessScore(BiasScore(
                    DiffsOf(d, sens, m, "Selection Rate"), DiffsOf(d, sens, m, "EO_TPR"),
                    AverageOdds(DiffsOf(d, sens, m, "FPR"), DiffsOf(d, sens, m, "TPR")),
                    DiffsOf(d, sens, m, "FPR"), DiffsOf(d, sens, m, "TPR"))))]
AnalysesOn(d, yt, yp, pr, sens) ==
    {Analysis(d, yt, yb, sens) : yb \in RerankFrom({yp}, d, Groups(d, sens), pr, 1)}
PositionOf(col, cols) == CHOOSE k \in DOMAIN cols : cols[k] = col
DiffsFor(a, col) ==
    LET k == PositionOf(col, a.cols) IN <<a.dp[k], a.eo[k], a.fpr[k], a.tpr[k]>>
FirstValue(col) == test_data.rows[1][col]
SecondRow(col) ==
    CHOOSE i \in DOMAIN test_data.rows :
        /\ test_data.rows[i][col] # FirstValue(col)
        /\ \A j \in 1..(i - 1) : test_data.rows[j][col] = FirstValue(col)
SecondValue(col) == test_data.rows[SecondRow(col)][col]
GapBetween(name, col) ==
    FAbs(FSub(Val(metrics.v[name].v[GroupId(col, FirstValue(col))]),
              Val(metrics.v[name].v[GroupId(col, SecondValue(col))])))
InPair(col, i) == test_data.rows[i][col] \in {FirstValue(col), SecondValue(col)}
PairRows(col) ==
    LET Kept(i) == InPair(col, i)
    IN  SelectSeq([i \in DOMAIN test_data.rows |-> i], Kept)
Only(seq, idx) == [k \in DOMAIN idx |-> seq[idx[k]]]
PairOnlyAnalyses(col) ==
    LET idx == PairRows(col) IN
    AnalysesOn(Dataset(test_data.columns, Only(test_data.rows, idx)), Only(y_true, idx),
               Only(y_pred.data, idx), Only(probas.data, idx), sensitive_attributes)
HereDiffs(col) ==
    LET k == PositionOf(col, CompareCols(test_data, sensitive_attributes))
        D(name) == DiffsOf(test_data, sensitive_attributes, metrics, name)[k]
    IN  <<D("Selection Rate"), D("EO_TPR"), D("FPR"), D("TPR")>>
PairIsFirstTwo(col) ==
    LET diffs == HereDiffs(col)
    IN  /\ Val(diffs[1]) = GapBetween("Selection Rate", col)
        /\ Val(diffs[2]) = GapBetween("TPR", col)
        /\ Val(diffs[3]) = GapBetween("FPR", col)
        /\ Val(diffs[4]) = GapBetween("TPR", col)
HasLaterValues(col) == Len(Unique(Column(test_data, col))) > 2
LaterValuesChangeNothing(col) ==
    HasLaterValues(col) =>
        \E o \in PairOnlyAnalyses(col) :
            /\ DiffsFor(o, col) = HereDiffs(col)
            /\ Val(o.score) = Val(result.v.fairness_score)
C14_SecondInvocationAgrees ==
    (pc = "done" /\ first # NoFirst) => result = first.result


(***************************************************************************)
(* Properties of certify_model (checked under SpecCertify)                 *)
(***************************************************************************)
SavedPaths(r) ==
    {reqs[r].model_file_path, reqs[r].dataset_file_path,
     reqs[r].unbiased_dataset_path} \ {NoPath}

\* C15: two certify_model requests, however they interleave and also when
\* they are for the same model_id with the same upload filename, never
\* write to the same path: a file a request has saved (model, dataset or
\* generated unbiased dataset) still holds what that request wrote.
C15_SavedFilesAreNeverOverwritten ==
    \A r \in Requests : \A p \in SavedPaths(r) : assets[p].by = r

HasError(fr) == fr.t = "dict" /\ "error" \in DOMAIN fr.v
StoredFor(q) ==
    /\ q.report_id \in DOMAIN db.REPORTS
    /\ db.REPORTS[q.report_id].MODEL_ID = q.model_id
    /\ \E i \in DOMAIN db.VERSIONS :
          db.VERSIONS[i].MODEL_ID = q.model_id /\ db.VERSIONS[i].REPORT_ID = q.report_id
Surfaces(response, msg) ==
    response.t = "dict" /\ \E key \in DOMAIN response.v : response.v[key] = msg

\* C16: when the analysis returns a result carrying an error, certify_model
\* does not abort: once it has returned, a report and a version of the
\* model are stored and some field of the response holds the error string
\* of the analysis.
C16_AnalysisErrorIsSurfaced ==
    \A r \in Requests :
        (reqs[r].pc = "returned" /\ HasError(reqs[r].fairness_results)) =>
            /\ StoredFor(reqs[r])
            /\ Surfaces(reqs[r].response, reqs[r].fairness_results.v["error"])

\* the analysis named at least one attribute
Flagged(fr) ==
    LET ib == Get(fr, "intentional_bias", PyList(<<>>))
    IN  ib.t = "list" /\ ib.v # <<>>
FourTier(fr) ==
    IF fr.t = "NoneType" THEN "Analysis Failed"
    ELSE IF Get(fr, "certification_status", PyStr("NOT FAIR")).v = "CERTIFIED FAIR"
         THEN "Certified Fair"
    ELSE IF FLeq(Frac(7, 10), Val(Get(fr, "fairness_score", PyFloat(Half))))
         THEN "Fair with Minor Bias"
    ELSE IF Flagged(fr) THEN "Intentional Bias Detected"
    ELSE "Biased - Requires Mitigation"
CertificateType(q) == q.response.v["certificate_type"].v

\* C29: the certificate type certify_model assigns follows the four-tier
\* rule: "Certified Fair" when the analysis status is CERTIFIED FAIR, else
\* "Fair with Minor Bias" when fairness_score >= 0.7, else "Intentional Bias
\* Detected" when the analysis flagged at least one attribute name, else
\* "Biased - Requires Mitigation", and "Analysis Failed" exactly when no
\* analysis was performed; an analysis that returned an error result is
\* never recorded as "Intentional Bias Detected".
C29_FourTierCertificate ==
    \A r \in Requests :
        (reqs[r].pc = "returned" /\ reqs[r].response.t = "dict") =>
            /\ CertificateType(reqs[r]) = FourTier(reqs[r].fairness_results)
            /\ HasError(reqs[r].fairness_results)
                  => CertificateType(reqs[r]) # "Intentional Bias Detected"

(***************************************************************************)
(* Further properties of perform_fairness_analysis (checked under Spec)    *)
(***************************************************************************)
EntryOf(col) == result.v["bias_metrics"].v[col].v
\* the absolute difference of the k-th compared attribute, to 3 decimals
OwnGap(k, name) ==
    Val(Round3(DiffsOf(test_data, sensitive_attributes, metrics, name)[k]))
EntryGaps(col) ==
    <<Val(EntryOf(col)["demographic_parity_diff"]),
      Val(EntryOf(col)["equal_opportunity_diff"]),
      Val(EntryOf(col)["fpr_diff"]), Val(EntryOf(col)["tpr_diff"])>>
OwnGaps(k) ==
    <<OwnGap(k, "Selection Rate"), OwnGap(k, "EO_TPR"), OwnGap(k, "FPR"), OwnGap(k, "TPR")>>

\* C21: the entry of a compared attribute in bias_metrics reports that
\* attribute's own disparities: its four diffs are, to 3 decimals, the
\* absolute differences of the attribute's comparison pair, and two
\* attributes whose disparities differ have different entries.
C21_EntryReportsOwnDiffs ==
    Succeeded =>
        LET cc == CompareCols(test_data, sensitive_attributes) IN
        /\ \A k \in DOMAIN cc : EntryGaps(cc[k]) = OwnGaps(k)
        /\ \A j, k \in DOMAIN cc :
              OwnGaps(j) # OwnGaps(k) => EntryGaps(cc[j]) # EntryGaps(cc[k])

Cells(y_t, y_p) ==
    LET c == confusion_matrix(y_t, y_p) IN c.tn + c.fp + c.fn + c.tp

\* C22: the target vector is coerced to 0/1 integers, so every entry of
\* y_true that TPR and FPR are computed from is 0 or 1, and every row of a
\* group falls in exactly one of TP, FP, TN, FN: the four counts add up to
\* the size of the group.
C22_TargetIsBinaryAndCounted ==
    (pc \in {"reranked", "measured", "scored"}
        /\ Len(y_pred_biased) = Len(test_data.rows)) =>
        /\ \A i \in DOMAIN y_true : y_true[i] \in {0, 1}
        /\ LET gs == Groups(test_data, sensitive_attributes) IN
           \A k \in DOMAIN gs :
              LET idx == GroupIndices(test_data, gs[k]) IN
              Cells(Masked(y_true, idx), Masked(y_pred_biased, idx)) = Cardinality(idx)

\* the numbers Normalize works on (lines 485-487)
RawNumbers(v) == IF v.dkind \in {"U", "S", "O"} THEN ToNumeric(v) ELSE v.data
OutOfRange(d) == SeqMax(d) > 10 \/ SeqMin(d) < 0
OtherVectors == RawData(MaxRows + 1) \ {<<>>}

\* C23: after normalization every entry of the prediction vector is 0 or 1;
\* entries that are no number become 0; when some raw value lies outside
\* [0,1] an entry becomes 1 exactly when it is above 0.5, otherwise each
\* entry is cast to an integer; and a raw value gets the same label in every
\* vector it occurs in, whichever branch that vector takes.
C23_NormalizationIsConsistent ==
    [][(pc = "predicted" /\ pc' = "normalized") =>
        LET d == RawNumbers(y_pred)
            b == y_pred'.data
        IN  /\ \A i \in DOMAIN b : b[i] \in {0, 1}
            /\ \A i \in y_pred.nonnum : d[i] = 0
            /\ OutOfRange(d) => \A i \in DOMAIN d : (b[i] = 1) <=> (d[i] > 5)
            /\ ~OutOfRange(d) => \A i \in DOMAIN d : b[i] = d[i] \div 10
            /\ \A e \in OtherVectors : \A i \in DOMAIN d, j \in DOMAIN e :
                  e[j] = d[i] => Binarize(e)[j] = b[i]]_vars

Rejected(p) ==
    \/ p.kind = "ndarray" /\ p.ndim >= 2
    \/ p.kind = "object" /\ ~p.predict
ReturnsErrorUnread ==
    /\ pc' = "done" /\ result'.t = "dict" /\ "error" \in DOMAIN result'.v
    /\ test_data' = NoData

\* C24: loading tries pickle first and joblib exactly when pickle has
\* failed; when both fail the error result is returned and the dataset is
\* not read; an array of 2 or more dimensions, or an object without
\* predict, is turned down with an error result before the dataset is
\* read; the dataset is read only once a usable model is at hand.
C24_LoadersInOrder ==
    [][/\ pc = "start" => pc' \in {"loaded", "pickle_failed"}
       /\ pc' = "pickle_failed" => pc = "start" /\ pipeline' = NoModel
       /\ pc = "pickle_failed" =>
             \/ pc' = "loaded" /\ pipeline' # NoModel
             \/ ReturnsErrorUnread /\ result'.v["error"] = PyStr("Failed to load model")
       /\ (pc = "loaded" /\ Rejected(pipeline)) => ReturnsErrorUnread
       /\ (test_data = NoData /\ test_data' # NoData) =>
             pc = "adapted" /\ pipeline.predict]_vars

\* both loaders have failed and the call has returned
C24_BothLoadersFailed ==
    /\ Failed /\ result.v["error"] = PyStr("Failed to load model")
    /\ pipeline = NoModel /\ test_data = NoData

RetryRaised == Len(predict_calls) = 2 /\ predict_calls[2].outcome = "raised"

\* C25: predict is called at most twice in an invocation; a second call is
\* made only after the first call has raised, and it is made on the
\* un-encoded features; when the retry raises too, the call returns the
\* default-score result with error set and no metrics have been computed.
C25_RetryOnlyAfterPredictRaised ==
    /\ Len(predict_calls) <= 2
    /\ Len(predict_calls) = 2 =>
          predict_calls[1].outcome = "raised" /\ predict_calls[2].matrix = "X"
    /\ RetryRaised =>
          /\ Failed /\ result.v["fairness_score"] = PyFloat(Half)
          /\ result.v["bias_metrics"] = EmptyDict /\ metrics = None

\* the keys of a result computed from real predictions (lines 639-652)
PlainKeys ==
    {"fairness_score", "intentional_bias", "bias_metrics", "sensitive_attributes_analyzed",
     "certification_status", "intended_selection_rates", "actual_selection_rates",
     "demographic_parity_diff", "equal_opportunity_diff", "fpr_diff", "tpr_diff",
     "average_odds_diff"}
Marked(r) == r.t = "dict" /\ DOMAIN r.v \ PlainKeys # {}

\* C26: when the deserialized model is a 1-D array of strings, the result
\* the call returns is marked as degraded: it carries an error or some
\* other field that a result computed from real predictions does not have;
\* in particular it is never an unmarked "CERTIFIED FAIR".
C26_StringArrayResultIsMarked ==
    (Returned /\ is_string_array) => Marked(result)

\* the group keys "col=value" of one column among keys
KeysFor(col, keys) ==
    {k \in keys : Len(k) > Len(col) /\ SubSeq(k, 1, Len(col) + 1) = col \o "="}
Listed(r) == {r.v.intentional_bias.v[k].v : k \in DOMAIN r.v.intentional_bias.v}
FullResult(r) == r.t = "dict" /\ "bias_metrics" \in DOMAIN r.v

\* C27: the target column is the first name of the priority list (target,
\* label, y, class, selected) that is among the dataset's column names, and
\* the dataset's last column when none of them is; it is not a column of the
\* feature matrix, and it is not analysed as a sensitive attribute: it has
\* no group in the metrics, no bias_metrics entry and no place in
\* intentional_bias, also when it is among the sensitive attributes.
C27_TargetResolvedAndSetAside ==
    /\ target_col # "" =>
          LET cols == test_data.columns
              Present(i) == InSeq(TargetPriority[i], cols)
          IN  /\ \A i \in DOMAIN TargetPriority :
                    (Present(i) /\ \A j \in 1..(i - 1) : ~Present(j))
                        => target_col = TargetPriority[i]
              /\ (\A i \in DOMAIN TargetPriority : ~Present(i))
                    => target_col = cols[Len(cols)]
              /\ ~InSeq(target_col, FeatureCols(test_data, target_col))
    /\ metrics # None =>
          \A name \in DOMAIN metrics.v :
              KeysFor(target_col, DOMAIN metrics.v[name].v) = {}
    /\ (Succeeded /\ FullResult(result)) =>
          /\ target_col \notin DOMAIN result.v.bias_metrics.v
          /\ target_col \notin Listed(result)
          /\ KeysFor(target_col, DOMAIN result.v.actual_selection_rates.v) = {}
          /\ KeysFor(target_col, DOMAIN result.v.intended_selection_rates.v) = {}
\* a run that succeeded on a dataset whose target column, found by the
\* last-column rule, is also among the sensitive attributes
C27_TargetAmongAttributes ==
    /\ Succeeded /\ FullResult(result)
    /\ InSeq(target_col, sensitive_attributes)
    /\ \A i \in DOMAIN TargetPriority : ~InSeq(TargetPriority[i], test_data.columns)
    /\ result.v.bias_metrics.v # <<>>

\* the columns auto-detection names, and the column the fallback takes
NamedSensitive(d) ==
    LET IsSens(c) == Lower(c) \in SensitiveNames IN SelectSeq(d.columns, IsSens)
FirstTextual(d, target) ==
    LET IsText(c) == c # target /\ IsObjectColumn(d, c)
        text == SelectSeq(d.columns, IsText)
    IN  IF text = <<>> THEN <<>> ELSE <<text[1]>>
\* the attributes the run analyses follow the rule for an omitted argument
AsWhenOmitted ==
    sensitive_attributes =
        IF NamedSensitive(test_data) # <<>> THEN NamedSensitive(test_data)
        ELSE FirstTextual(test_data, target_col)

\* C28: when sensitive_attributes is not supplied the attributes are the
\* columns whose lower-cased name is one of gender, sex, race, ethnicity,
\* age, education, in column order; only when no column matches does the
\* run fall back to the first non-target textual column; when the argument
\* is supplied, exactly the supplied attributes are used.
C28_AttributesAsSuppliedOrDetected ==
    target_col # "" =>
        IF sens_arg = NoneArg THEN AsWhenOmitted
        ELSE sensitive_attributes = sens_arg

Analysed(r) ==
    {r.v.sensitive_attributes_analyzed.v[k].v :
        k \in DOMAIN r.v.sensitive_attributes_analyzed.v}
\* the reported attributes that are feature columns of the dataset
AnalysedFeatures(r) ==
    {a \in Analysed(r) : InSeq(a, test_data.columns) /\ a # target_col}
\* every group key the result holds, at the top level or under an attribute
ResultKeys(r) ==
    DOMAIN r.v.actual_selection_rates.v \cup DOMAIN r.v.intended_selection_rates.v
    \cup UNION {UNION {DOMAIN r.v.bias_metrics.v[c].v.group_metrics.v[name].v :
                          name \in DOMAIN r.v.bias_metrics.v[c].v.group_metrics.v} :
                   c \in DOMAIN r.v.bias_metrics.v}

\* C30: in a successful result the items of intentional_bias, the keys of
\* bias_metrics and the reported sensitive attributes that are feature
\* columns are one and the same set, whatever the disparities are; a
\* reported attribute that is not a feature column (absent from the dataset,
\* or the target column) has no bias_metrics entry and no group metrics.
C30_ListedIsAnalysedFeature ==
    (Succeeded /\ FullResult(result)) =>
        /\ Listed(result) = AnalysedFeatures(result)
        /\ DOMAIN result.v.bias_metrics.v = AnalysedFeatures(result)
        /\ \A a \in Analysed(result) \ AnalysedFeatures(result) :
              /\ a \notin DOMAIN result.v.bias_metrics.v
              /\ KeysFor(a, ResultKeys(result)) = {}
\* a successful result that lists an attribute whose disparities are all
\* zero, next to a reported attribute that is no feature column
C30_ListedWithoutDisparity ==
    /\ Succeeded /\ FullResult(result)
    /\ Analysed(result) \ AnalysedFeatures(result) # {}
    /\ \E c \in Listed(result) :
          /\ Val(result.v.bias_metrics.v[c].v.demographic_parity_diff) = Zero
          /\ Val(result.v.bias_metrics.v[c].v.tpr_diff) = Zero

====
